---- MODULE Spec2Model ----
(***************************************************************************)
(* Biometric attendance pipeline (src/biometric_processor.py) and its      *)
(* query service (src/app.py).                                             *)
(*                                                                         *)
(* Text is modelled as a sequence of one-character strings, a calendar     *)
(* date as <<year, month, day>>, a time of day as <<hour, minute, second>>.*)
(* Working_Hours, a float rounded to two decimals in the code, is held in  *)
(* hundredths of an hour.                                                  *)
(***************************************************************************)
EXTENDS Integers, Sequences, FiniteSets, TLC

VARIABLES
    events,     \* process_attendance_data: the list of punch events (argument)
    employees,  \* process_attendance_data: the directory id -> name (argument)
    records,    \* process_attendance_data: the returned list of day records
    rpc,        \* "idle" | "ready" (arguments chosen) | "done" (has returned)
                \* | "again" (a second call has returned)
    file,       \* parse_attendance_file: the attendance file at file_path
    parsed,     \* parse_attendance_file: the returned list of punch events
    ppc,        \* "idle" | "ready" (file chosen) | "done" (has returned)
    folder,     \* app.py: the generated dashboards in UPLOAD_FOLDER
    request,    \* app.py: the request served last
    response,   \* app.py: the response it got
    empfile,    \* the extractors: the employee file at file_path
    directory,  \* the extractors: the returned dict id -> name
    xpc,        \* "idle" | "ready" (file chosen) | "primary" | "fallback";
                \* in the stepwise scan: "open" | "scan" | "returned"
    cursor,     \* parse_binary_employee_file: pos, the cursor of its scan loop
    disk,       \* the files of UPLOAD_FOLDER: path -> file
    calls,      \* process_biometric_data_for_excel_dashboard: caller -> frame
    uploads,    \* upload_files_and_process: request -> its state
    clock,      \* datetime.now(), in seconds
    seen,       \* what the lookup of a reader request returned, as a list
                \* of one; empty before the request
    dataframe,  \* the summaries: the DataFrame df of the day records
    employee_stats,     \* create_comparison_sheet: <<employee_stats, the
                        \* cells of the sheet>>; None before, or when it
                        \* raised
    attendance_rate,    \* print_summary: the rate it prints, as a list of
                        \* one; None before, or when it raised
    spc         \* "idle" | "ready" (records chosen) | "compared" | "printed"

rvars == <<events, employees, records, rpc>>

pvars == <<file, parsed, ppc>>

qvars == <<folder, request, response>>

xvars == <<empfile, directory, xpc, cursor>>

dvars == <<disk, calls, uploads, clock, seen>>

svars == <<dataframe, employee_stats, attendance_rate, spc>>

vars == <<events, employees, records, rpc, file, parsed, ppc,
          folder, request, response, empfile, directory, xpc, cursor,
          disk, calls, uploads, clock, seen,
          dataframe, employee_stats, attendance_rate, spc>>

----------------------------------------------------------------------------
(* Bounds of the model.                                                    *)

MaxEvents == 2      \* longest punch-event list handed to the reconciler

MaxLines == 2       \* most lines of an attendance file

MaxBlocks == 2      \* most records of an employee file

MaxUploads == 2     \* most upload requests of a run

MaxClock == 2       \* the last second of a run

MaxRows == 3        \* most day records handed to the summaries

MaxSheetEvents == 2 \* most punch events behind one generated dashboard

----------------------------------------------------------------------------
(* Text helpers.                                                           *)

DigitChars == <<"0", "1", "2", "3", "4", "5", "6", "7", "8", "9">>

Digits == {DigitChars[i] : i \in 1..10}

\* int() of one digit character
DigitVal(c) == CHOOSE n \in 0..9 : DigitChars[n + 1] = c

\* '%02d' / '%04d' as strftime renders the fields of a date or a time
Digit(n) == DigitChars[(n % 10) + 1]

Pad2(n) == <<Digit(n \div 10), Digit(n)>>

Pad4(n) == <<Digit(n \div 1000), Digit(n \div 100), Digit(n \div 10), Digit(n)>>

\* date.strftime('%Y-%m-%d')
FormatDate(d) == Pad4(d[1]) \o <<"-">> \o Pad2(d[2]) \o <<"-">> \o Pad2(d[3])

\* time.strftime('%H:%M:%S')
FormatTime(t) == Pad2(t[1]) \o <<":">> \o Pad2(t[2]) \o <<":">> \o Pad2(t[3])

NA == <<"N", "/", "A">>

UnknownPrefix == <<"U", "n", "k", "n", "o", "w", "n", "_">>

\* seconds since midnight: the order of datetime.time values, and the
\* total_seconds() of the difference of two datetimes of one date
Secs(t) == t[1] * 3600 + t[2] * 60 + t[3]

----------------------------------------------------------------------------
(* Inputs of the reconciler.                                               *)

Id007 == <<"0", "0", "7">>
Id042 == <<"0", "4", "2">>

JaneDoe == <<"J", "a", "n", "e", " ", "D", "o", "e">>
Bob == <<"B", "o", "b">>

Ids == {Id007, Id042}

Dates == {<<2024, 1, 10>>, <<2024, 2, 1>>}

Times == {<<0, 0, 0>>, <<9, 30, 0>>, <<9, 30, 1>>, <<9, 45, 0>>,
          <<13, 29, 45>>, <<13, 30, 0>>, <<16, 30, 0>>}

\* a parsed punch event: the dict of parse_attendance_file, without the
\* redundant 'datetime' (it is combine(date, time))
PunchEvents == [employee_id : Ids, date : Dates, time : Times]

NameOf == [i \in Ids |-> IF i = Id007 THEN JaneDoe ELSE Bob]

\* directories: every subset of the ids resolved, the others missing
Directories == {[i \in S |-> NameOf[i]] : S \in SUBSET Ids}

SeqsUpTo(S, n) == UNION {[1..k -> S] : k \in 0..n}

----------------------------------------------------------------------------
(* process_attendance_data                                                 *)

\* office_start = datetime.time(9, 30)
office_start == <<9, 30, 0>>

\* mutant: a missing id gets the bare placeholder, without the id
LookupNameBare(dir, emp_id) ==
    IF emp_id \in DOMAIN dir THEN dir[emp_id] ELSE UnknownPrefix

\* employees.get(emp_id, f"Unknown_{emp_id}")
LookupName(dir, emp_id) ==
    IF emp_id \in DOMAIN dir THEN dir[emp_id] ELSE UnknownPrefix \o emp_id

\* mutant: the key leaves the date out
GroupKeyNoDate(dir, ev) == <<ev.employee_id, LookupName(dir, ev.employee_id)>>

\* key = (emp_id, emp_name, date)
GroupKey(dir, ev) == <<ev.employee_id, LookupName(dir, ev.employee_id), ev.date>>

\* index of the group with this key in daily_data (a dict, in insertion
\* order), 0 when the key is not in it
RECURSIVE KeyIndex(_, _, _)
KeyIndex(groups, key, i) ==
    IF i > Len(groups) THEN 0
    ELSE IF groups[i].key = key THEN i
    ELSE KeyIndex(groups, key, i + 1)

\* one iteration of the grouping loop
AddEvent(groups, dir, ev) ==
    LET key == GroupKey(dir, ev)
        at == KeyIndex(groups, key, 1)
    IN  IF at = 0
        THEN Append(groups, [key |-> key,
                             employee_id |-> ev.employee_id,
                             employee_name |-> key[2],
                             date |-> ev.date,
                             times |-> <<ev.time>>])
        ELSE [groups EXCEPT ![at].times = Append(@, ev.time)]

\* the grouping loop: daily_data after the first n events
RECURSIVE GroupEvents(_, _, _)
GroupEvents(evs, dir, n) ==
    IF n = 0 THEN <<>>
    ELSE AddEvent(GroupEvents(evs, dir, n - 1), dir, evs[n])

\* mutant: the times are sorted in descending order
RECURSIVE InsertSortedDesc(_, _)
InsertSortedDesc(sorted, t) ==
    IF sorted = <<>> THEN <<t>>
    ELSE IF Secs(t) > Secs(Head(sorted)) THEN <<t>> \o sorted
    ELSE <<Head(sorted)>> \o InsertSortedDesc(Tail(sorted), t)

\* sorted(data['times']): insertion of one time into a sorted list
RECURSIVE InsertSorted(_, _)
InsertSorted(sorted, t) ==
    IF sorted = <<>> THEN <<t>>
    ELSE IF Secs(t) < Secs(Head(sorted)) THEN <<t>> \o sorted
    ELSE <<Head(sorted)>> \o InsertSorted(Tail(sorted), t)

\* mutant: the times are left in arrival order
SortTimesUnsorted(ts) == ts

RECURSIVE SortTimes(_)
SortTimes(ts) ==
    IF ts = <<>> THEN <<>>
    ELSE InsertSorted(SortTimes(SubSeq(ts, 1, Len(ts) - 1)), ts[Len(ts)])

\* ties of round(x, 2): the quotients q for which the binary64 value of
\* (36 q + 18) / 3600 lies above the decimal midpoint, so that round() goes up
\* (listed for the differences of the model's Times, none of which is a tie)
TieRoundsUp == {}

\* round(seconds / 3600, 2), in hundredths of an hour
RoundHours(secs) ==
    LET q == secs \div 36
        r == secs % 36
    IN  IF r < 18 THEN q
        ELSE IF r > 18 THEN q + 1
        ELSE IF q \in TieRoundsUp THEN q + 1 ELSE q

\* Python's None
None == <<>>

\* mutant: a lone punch is no check-in
CheckInOfSeveral(times) == IF Len(times) > 1 THEN times[1] ELSE None

\* check_in = times[0] if times else None
CheckIn(times) == IF Len(times) > 0 THEN times[1] ELSE None

\* check_out = times[-1] if len(times) > 1 else None
CheckOut(times) == IF Len(times) > 1 THEN times[Len(times)] ELSE None

\* (check_out_dt - check_in_dt).total_seconds() when both are set (a
\* datetime.time is always true, midnight included), the initial 0 otherwise
WorkedSecs(check_in, check_out) ==
    IF check_in # None /\ check_out # None
    THEN Secs(check_out) - Secs(check_in)
    ELSE 0

\* mutant: a check-in at the office start counts as late
IsLateOrEqual(check_in) == check_in # None /\ Secs(check_in) >= Secs(office_start)

\* is_late: check_in and check_in > office_start
IsLate(check_in) == check_in # None /\ Secs(check_in) > Secs(office_start)

\* int(late_minutes), late_minutes the float total_seconds() / 60: the
\* whole minutes, since the difference is positive
LateMinutes(check_in) ==
    IF IsLate(check_in)
    THEN (Secs(check_in) - Secs(office_start)) \div 60
    ELSE 0

\* the status chain, on the unrounded working_hours = worked_secs / 3600
StatusOf(check_in, worked_secs) ==
    IF check_in = None THEN "ABSENT"
    ELSE IF worked_secs >= 7 * 3600 THEN "PRESENT"
    ELSE IF worked_secs >= 4 * 3600 THEN "HALF_DAY"
    ELSE "PRESENT"

\* the late_flag chain (the flags without their emoji)
LateFlagOf(check_in, is_late) ==
    IF check_in = None THEN "ABSENT"
    ELSE IF is_late THEN "LATE"
    ELSE "ON TIME"

\* the body of the second loop: one group to one processed_record
ProcessGroup(data) ==
    LET times == SortTimes(data.times)
        check_in == CheckIn(times)
        check_out == CheckOut(times)
        worked_secs == WorkedSecs(check_in, check_out)
    IN  [Employee_ID |-> data.employee_id,
         Employee_Name |-> data.employee_name,
         Date |-> FormatDate(data.date),
         Check_In |-> IF check_in # None THEN FormatTime(check_in) ELSE NA,
         Check_Out |-> IF check_out # None THEN FormatTime(check_out) ELSE NA,
         Working_Hours |-> RoundHours(worked_secs),
         Late_Minutes |-> LateMinutes(check_in),
         Status |-> StatusOf(check_in, worked_secs),
         Late_Flag |-> LateFlagOf(check_in, IsLate(check_in)),
         Is_Late |-> IsLate(check_in)]

\* mutant: daily_data outlives the call, so a second call on the same
\* events adds their times to the groups of the first
process_attendance_data_keeping(evs, dir) ==
    LET again == IF records = <<>> THEN evs ELSE evs \o evs
        daily_data == GroupEvents(again, dir, Len(again))
    IN  [i \in 1..Len(daily_data) |-> ProcessGroup(daily_data[i])]

process_attendance_data(evs, dir) ==
    LET daily_data == GroupEvents(evs, dir, Len(evs))
    IN  [i \in 1..Len(daily_data) |-> ProcessGroup(daily_data[i])]

----------------------------------------------------------------------------
(* parse_attendance_file                                                   *)

TAB == "\t"

\* the characters str.strip() removes and \s matches, among those of Lines
Whitespace == {" ", TAB}

\* Scenario A, first punch
LineInA ==
    <<"0", "0", "7", "\t", "2", "0", "2", "4", "-", "0", "1", "-", "1", "0", " ", "0", "9", ":", "1", "5", ":", "0", "0">>

\* Scenario A, second punch
LineOutA ==
    <<"0", "0", "7", "\t", "2", "0", "2", "4", "-", "0", "1", "-", "1", "0", " ", "1", "7", ":", "2", "0", ":", "0", "0">>

\* Scenario B
LineB ==
    <<"0", "4", "2", "\t", "2", "0", "2", "4", "-", "0", "2", "-", "0", "1", " ", "1", "0", ":", "0", "0", ":", "0", "0">>

\* Scenario D
LineD ==
    <<"a", "b", "c", "\t", "n", "o", "t", "a", "d", "a", "t", "e">>

\* an empty line
LineEmpty ==
    <<>>

\* a line of spaces
LineSpaces ==
    <<" ", " ">>

\* no tab
LineOneField ==
    <<"0", "0", "7">>

\* spaces around both fields
LinePadded ==
    <<" ", "0", "0", "7", " ", "\t", " ", "2", "0", "2", "4", "-", "0", "1", "-", "1", "0", " ", "0", "9", ":", "1", "5", ":", "0", "0", " ">>

\* a leading tab
LineLeadTab ==
    <<"\t", "0", "0", "7", "\t", "2", "0", "2", "4", "-", "0", "1", "-", "1", "0", " ", "0", "9", ":", "1", "5", ":", "0", "0">>

\* month, day and hour of one digit
LineUnpadded ==
    <<"0", "0", "7", "\t", "2", "0", "2", "4", "-", "1", "-", "5", " ", "9", ":", "0", "5", ":", "0", "3">>

\* two spaces between date and time
LineTwoSpaces ==
    <<"0", "0", "7", "\t", "2", "0", "2", "4", "-", "0", "1", "-", "1", "0", " ", " ", "0", "9", ":", "1", "5", ":", "0", "0">>

\* an impossible date
LineFeb30 ==
    <<"0", "0", "7", "\t", "2", "0", "2", "4", "-", "0", "2", "-", "3", "0", " ", "0", "9", ":", "0", "0", ":", "0", "0">>

\* second 60
LineSec60 ==
    <<"0", "0", "7", "\t", "2", "0", "2", "4", "-", "0", "1", "-", "1", "0", " ", "0", "9", ":", "1", "5", ":", "6", "0">>

\* T between date and time
LineIsoT ==
    <<"0", "0", "7", "\t", "2", "0", "2", "4", "-", "0", "1", "-", "1", "0", "T", "0", "9", ":", "1", "5", ":", "0", "0">>

\* no seconds
LineNoSecs ==
    <<"0", "0", "7", "\t", "2", "0", "2", "4", "-", "0", "1", "-", "1", "0", " ", "0", "9", ":", "1", "5">>

\* a third field
LineThird ==
    <<"0", "0", "7", "\t", "2", "0", "2", "4", "-", "0", "1", "-", "1", "0", " ", "0", "9", ":", "1", "5", ":", "0", "0", "\t", "1">>

\* a letter in the id
LineBadId ==
    <<"0", "a", "7", "\t", "2", "0", "2", "4", "-", "0", "1", "-", "1", "0", " ", "0", "9", ":", "1", "5", ":", "0", "0">>

Lines == {LineInA, LineOutA, LineB, LineD,
          LineEmpty, LineSpaces, LineOneField, LinePadded,
          LineLeadTab, LineUnpadded, LineTwoSpaces, LineFeb30,
          LineSec60, LineIsoT, LineNoSecs, LineThird,
          LineBadId}

\* an attendance file: whether it exists and can be read as UTF-8 text, and
\* its lines as readlines() returns them, without the line ends strip() removes
Files == [readable : BOOLEAN, lines : SeqsUpTo(Lines, MaxLines)]

\* s[i], or "" past either end
At(s, i) == IF i \in 1..Len(s) THEN s[i] ELSE ""

\* str.strip()
RECURSIVE LStrip(_)
LStrip(s) ==
    IF s # <<>> /\ Head(s) \in Whitespace THEN LStrip(Tail(s)) ELSE s

RECURSIVE RStrip(_)
RStrip(s) ==
    IF s # <<>> /\ s[Len(s)] \in Whitespace
    THEN RStrip(SubSeq(s, 1, Len(s) - 1))
    ELSE s

Strip(s) == RStrip(LStrip(s))

\* str.split(sep) with a one-character separator
RECURSIVE Split(_, _)
Split(s, sep) ==
    LET hit == {i \in 1..Len(s) : s[i] = sep}
    IN  IF hit = {} THEN <<s>>
        ELSE LET i == CHOOSE j \in hit : \A k \in hit : j <= k
             IN  <<SubSeq(s, 1, i - 1)>> \o Split(SubSeq(s, i + 1, Len(s)), sep)

\* str.isdigit()
IsDigit(s) == s # <<>> /\ \A i \in 1..Len(s) : s[i] \in Digits

\* length of the run of characters of cs that starts at s[i]
RECURSIVE RunLen(_, _, _)
RunLen(s, i, cs) ==
    IF i <= Len(s) /\ s[i] \in cs THEN 1 + RunLen(s, i + 1, cs) ELSE 0

\* int() of the n digits that start at s[i]
RECURSIVE Num(_, _, _)
Num(s, i, n) ==
    IF n = 0 THEN 0
    ELSE 10 * Num(s, i, n - 1) + DigitVal(s[i + n - 1])

\* the days of a month of the proleptic Gregorian calendar
DaysInMonth(y, m) ==
    IF m = 2
    THEN IF (y % 4 = 0 /\ y % 100 # 0) \/ y % 400 = 0 THEN 29 ELSE 28
    ELSE IF m \in {4, 6, 9, 11} THEN 30 ELSE 31

\* datetime.datetime.strptime(s, "%Y-%m-%d %H:%M:%S"): <<date, time>>, or
\* None where it raises ValueError.  The format compiles to the pattern
\*   \d\d\d\d-(1[0-2]|0[1-9]|[1-9])-(3[01]|[12]\d|0[1-9]|[1-9]| [1-9])\s+
\*   (2[0-3]|[0-1]\d|\d):([0-5]\d|\d):(6[01]|[0-5]\d|\d)
\* which must match the whole text; the date and the second are then checked
\* by the datetime constructor.
Strptime(s) ==
    LET yl == RunLen(s, 1, Digits)
        mi == 6
        ml == RunLen(s, mi, Digits)
        d0 == mi + ml + 1
        lead == IF At(s, d0) = " " THEN 1 ELSE 0
        di == d0 + lead
        dl == RunLen(s, di, Digits)
        wi == di + dl
        wl == RunLen(s, wi, Whitespace)
        hi == wi + wl
        hl == RunLen(s, hi, Digits)
        ni == hi + hl + 1
        nl == RunLen(s, ni, Digits)
        si == ni + nl + 1
        sl == RunLen(s, si, Digits)
        year == Num(s, 1, 4)
        month == Num(s, mi, ml)
        day == Num(s, di, dl)
        hour == Num(s, hi, hl)
        minute == Num(s, ni, nl)
        second == Num(s, si, sl)
        matches ==
            /\ yl = 4 /\ At(s, 5) = "-"
            /\ ml \in {1, 2} /\ month \in 1..12 /\ At(s, mi + ml) = "-"
            /\ IF lead = 1 THEN dl = 1 /\ day \in 1..9
                           ELSE dl \in {1, 2} /\ day \in 1..31
            /\ wl >= 1
            /\ hl \in {1, 2} /\ hour \in 0..23 /\ At(s, hi + hl) = ":"
            /\ nl \in {1, 2} /\ minute \in 0..59 /\ At(s, ni + nl) = ":"
            /\ sl \in {1, 2} /\ second \in 0..61
            /\ si + sl = Len(s) + 1
    IN  IF matches /\ year >= 1 /\ day <= DaysInMonth(year, month) /\ second <= 59
        THEN <<<<year, month, day>>, <<hour, minute, second>>>>
        ELSE None

\* the body of the loop over the lines: the record appended for one line, as a
\* list of one, or the empty list where the line is passed over
ParseLine(raw) ==
    LET line == Strip(raw)
        parts == Split(line, TAB)
    IN  IF line = <<>> THEN <<>>
        ELSE IF Len(parts) < 2 THEN <<>>
        ELSE LET emp_id == Strip(parts[1])
                 datetime_str == Strip(parts[2])
                 datetime_obj == Strptime(datetime_str)
             IN  IF ~IsDigit(emp_id) THEN <<>>
                 ELSE IF datetime_obj = None THEN <<>>
                 ELSE <<[employee_id |-> emp_id,
                         date |-> datetime_obj[1],
                         time |-> datetime_obj[2]]>>

\* mutant: a record is put in front of those of the earlier lines
RECURSIVE ParseLinesReversed(_, _)
ParseLinesReversed(ls, n) ==
    IF n = 0 THEN <<>>
    ELSE ParseLine(ls[n]) \o ParseLinesReversed(ls, n - 1)

\* the loop over the lines: records after the first n lines
RECURSIVE ParseLines(_, _)
ParseLines(ls, n) ==
    IF n = 0 THEN <<>>
    ELSE ParseLines(ls, n - 1) \o ParseLine(ls[n])

\* a missing file, or one open() or readlines() raises on, gives []
parse_attendance_file(f) ==
    IF ~f.readable THEN <<>> ELSE ParseLines(f.lines, Len(f.lines))

----------------------------------------------------------------------------
(* parse_binary_employee_file and extract_names_and_ids_from_binary        *)
(*                                                                         *)
(* The employee file is a sequence of bytes 0..255; positions are those of *)
(* the code (from 0), so the byte at position p is data[p + 1].            *)

\* the characters of the bytes 32..126; the one of byte 96, which a string
\* of TLA+ cannot hold, is written "grave"
Printable ==
    <<
      " ", "!", "\"", "#", "$", "%", "&", "'", "(", ")", "*", "+", ",", "-", ".", "/",
      "0", "1", "2", "3", "4", "5", "6", "7", "8", "9", ":", ";", "<", "=", ">", "?",
      "@", "A", "B", "C", "D", "E", "F", "G", "H", "I", "J", "K", "L", "M", "N", "O",
      "P", "Q", "R", "S", "T", "U", "V", "W", "X", "Y", "Z", "[", "\\", "]", "^", "_",
      "grave", "a", "b", "c", "d", "e", "f", "g", "h", "i", "j", "k", "l", "m", "n", "o",
      "p", "q", "r", "s", "t", "u", "v", "w", "x", "y", "z", "{", "|", "}", "~"
    >>

\* chr(byte) of a byte in 32..126
Chr(byte) == Printable[byte - 31]

IsPrintable(byte) == 32 <= byte /\ byte <= 126

\* [A-Z] and [A-Za-z]
UpperCase == {Chr(b) : b \in 65..90}

Letters == {Chr(b) : b \in (65..90) \cup (97..122)}

\* data[a:b].decode('latin-1') of a slice of printable bytes
Decode(data, a, b) == [i \in 1..(b - a) |-> Chr(data[a + i])]

\* mutant: a key the dict already holds keeps its value
PutIfAbsent(dict, key, value) ==
    [k \in DOMAIN dict \cup {key} |-> IF k \in DOMAIN dict THEN dict[k] ELSE value]

\* employees[key] = value on a dict
Put(dict, key, value) ==
    [k \in DOMAIN dict \cup {key} |-> IF k = key THEN value ELSE dict[k]]

\* the assignments employees[id] = name of a scan, in the order it makes them
RECURSIVE Assign(_, _)
Assign(pairs, n) ==
    IF n = 0 THEN <<>>
    ELSE Put(Assign(pairs, n - 1), pairs[n][1], pairs[n][2])

\* lines 45-50: the end of the run of printable bytes that starts at pos,
\* 50 bytes long at most
NameEnd(data, pos) ==
    LET stops == {e \in pos..Len(data) :
                     ~(e < Len(data) /\ e < pos + 50 /\ IsPrintable(data[e + 1]))}
    IN  CHOOSE e \in stops : \A f \in stops : e <= f

\* re.match(r'^[A-Za-z][A-Za-z\s]*$', text)
IsName(text) ==
    /\ text # <<>>
    /\ text[1] \in Letters
    /\ \A i \in 2..Len(text) : text[i] \in Letters \cup Whitespace

\* lines 62-63: the first position from name_end on whose byte is not 0
SkipNul(data, name_end) ==
    LET stops == {p \in name_end..Len(data) : ~(p < Len(data) /\ data[p + 1] = 0)}
    IN  CHOOSE p \in stops : \A q \in stops : p <= q

\* lines 70-76: the end of the run of digit bytes that starts at id_pos,
\* 10 bytes long at most
IdEnd(data, id_pos) ==
    LET stops == {e \in id_pos..Len(data) :
                     ~(e < Len(data) /\ e < id_pos + 10
                       /\ 48 <= data[e + 1] /\ data[e + 1] <= 57)}
    IN  CHOOSE e \in stops : \A f \in stops : e <= f

\* lines 66-86: the id of the first position in the 100 bytes from
\* id_search_start whose digit run is 1 to 3 long; None when there is none
FindId(data, id_search_start) ==
    LET last == (IF id_search_start + 100 < Len(data)
                 THEN id_search_start + 100 ELSE Len(data)) - 1
        hits == {p \in id_search_start..last :
                    /\ data[p + 1] # 0
                    /\ IdEnd(data, p) > p
                    /\ IdEnd(data, p) - p <= 3}
    IN  IF hits = {} THEN None
        ELSE LET id_pos == CHOOSE p \in hits : \A q \in hits : p <= q
             IN  <<Decode(data, id_pos, IdEnd(data, id_pos))>>

\* lines 40-94: the loop over pos; the (id, name) pairs it assigns from pos on
RECURSIVE ScanRecords(_, _)
ScanRecords(data, pos) ==
    IF ~(pos < Len(data) - 10) THEN <<>>
    ELSE LET name_end == NameEnd(data, pos)
             potential_name == Decode(data, pos, name_end)
         IN  IF name_end > pos + 2 /\ IsName(Strip(potential_name))
             THEN LET potential_id == FindId(data, SkipNul(data, name_end))
                  IN  (IF potential_id = None THEN <<>>
                       ELSE <<<<potential_id[1], Strip(potential_name)>>>>)
                      \o ScanRecords(data, name_end + 50)
             ELSE ScanRecords(data, pos + 1)

\* the primary scan; a missing file, or one open() raises on, gives {}
parse_binary_employee_file(f) ==
    IF ~f.readable THEN <<>>
    ELSE LET pairs == ScanRecords(f.data, 0) IN Assign(pairs, Len(pairs))

\* lines 107-114: every byte outside 32..126 becomes a space, runs of
\* spaces become one space, and the text is stripped
Spaced(data) == [i \in DOMAIN data |-> IF IsPrintable(data[i]) THEN Chr(data[i]) ELSE " "]

Kept(c) == c # ""

Collapse(text) ==
    SelectSeq([i \in DOMAIN text |->
                  IF i > 1 /\ text[i] = " " /\ text[i - 1] = " " THEN "" ELSE text[i]],
              Kept)

TextOf(data) == Strip(Collapse(Spaced(data)))

\* r'([A-Za-z][A-Za-z]*?)(\d{1,3})(?=[A-Z]|\s|$)' matches at position p
\* (from 1): a run of letters from p, then a run of one to three digits that
\* an upper-case letter, a space or the end follows
MatchAt(text, p) ==
    LET letters == RunLen(text, p, Letters)
        digits == RunLen(text, p + letters, Digits)
        after == p + letters + digits
    IN  /\ letters >= 1
        /\ digits \in 1..3
        /\ (after > Len(text) \/ text[after] \in UpperCase \cup {" "})

\* re.findall from position p on: the leftmost match, as (id, name), and the
\* matches after its end
RECURSIVE FindAll(_, _)
FindAll(text, p) ==
    LET starts == {q \in p..Len(text) : MatchAt(text, q)}
    IN  IF starts = {} THEN <<>>
        ELSE LET q == CHOOSE a \in starts : \A b \in starts : a <= b
                 letters == RunLen(text, q, Letters)
                 after == q + letters + RunLen(text, q + letters, Digits)
             IN  <<<<SubSeq(text, q + letters, after - 1),
                     SubSeq(text, q, q + letters - 1)>>>>
                 \o FindAll(text, after)

\* the fallback extractor, on the bytes read from the file
extract_names_and_ids_from_binary(data) ==
    LET matches == FindAll(TextOf(data), 1) IN Assign(matches, Len(matches))

----------------------------------------------------------------------------
(* Employee files of the model.                                            *)

Jane == <<"J", "a", "n", "e">>
Amy == <<"a", "m", "y">>

Id1234 == <<"1", "2", "3", "4">>

\* text.encode('latin-1') of a printable text
Encode(text) == [i \in DOMAIN text |-> CHOOSE b \in 32..126 : Chr(b) = text[i]]

Nul(n) == [i \in 1..n |-> 0]

\* a record of the layout the primary scan reads: the name, a 0 byte, the
\* id (or none), and 0 bytes up to where the scan looks for the next name
Block(name, id) == Encode(name) \o <<0>> \o Encode(id) \o Nul(49 - Len(id))

Blocks == {Block(n, i) : n \in {JaneDoe, Bob}, i \in {Id007, Id042, Id1234, <<>>}}

\* a piece of the layout only the fallback reads: a name with its id right
\* behind it; or one byte that is not printable
Tokens ==
    {Encode(n \o i) : n \in {Jane, Bob, Amy}, i \in {Id007, Id042, Id1234}}
    \cup {<<1>>}

RECURSIVE Concat(_)
Concat(parts) == IF parts = <<>> THEN <<>> ELSE Head(parts) \o Concat(Tail(parts))

EmployeeData ==
    {Concat(parts) : parts \in SeqsUpTo(Blocks, MaxBlocks)}
    \cup {Concat(parts) : parts \in SeqsUpTo(Tokens, MaxBlocks)}

\* the file at employee_file_path: missing (or unreadable), or its bytes
MissingFile == [readable |-> FALSE, data |-> <<>>]

EmployeeFiles == {MissingFile} \cup {[readable |-> TRUE, data |-> d] : d \in EmployeeData}

----------------------------------------------------------------------------
(* app.py: the dashboards in the upload folder and the queries on them.    *)

\* the workbook of a dashboard: the rows of its Main_Data sheet, and whether
\* the file is completely written (read_excel raises on one that is not)
Workbook(rows) == [complete |-> TRUE, rows |-> rows]

Partial == [complete |-> FALSE, rows |-> <<>>]

\* punch events behind the dashboards of the model
SheetDates == {<<2024, 1, 9>>, <<2024, 1, 10>>, <<2024, 2, 1>>}

SheetEvents == [employee_id : Ids, date : SheetDates, time : {<<9, 30, 0>>}]

SheetDirectory == [i \in {Id007} |-> JaneDoe]

\* the Main_Data rows create_main_data_sheet writes: the processed records,
\* cell by cell; a dashboard is generated only from a non-empty record list
Sheets ==
    {Workbook(process_attendance_data(evs, SheetDirectory)) :
        evs \in SeqsUpTo(SheetEvents, MaxSheetEvents) \ {<<>>}}

OldSheet ==
    Workbook(process_attendance_data(
        <<[employee_id |-> Id042, date |-> <<2024, 1, 9>>, time |-> <<9, 30, 0>>]>>,
        SheetDirectory))

\* the upload folder: no dashboard, one, or an older and a newer one
Folders ==
    {{}}
    \cup {{[name |-> 1, mtime |-> 1, sheet |-> sh]} : sh \in Sheets \cup {Partial}}
    \cup {{[name |-> 1, mtime |-> 1, sheet |-> OldSheet],
           [name |-> 2, mtime |-> 2, sheet |-> sh]} : sh \in Sheets \cup {Partial}}

\* the files of the folder sorted by modification time, newest first:
\* None, or files[0] as a list of one
get_latest_processed_excel_path(fold) ==
    IF fold = {} THEN None
    ELSE <<CHOOSE a \in fold : \A b \in fold : b.mtime <= a.mtime>>

\* read_excel takes a column of digit strings for integers and astype(str)
\* writes them back without their leading zeros
RECURSIVE StripLeadingZeros(_)
StripLeadingZeros(id) ==
    IF Len(id) > 1 /\ Head(id) = "0" THEN StripLeadingZeros(Tail(id)) ELSE id

\* pd.to_datetime of the Date text, then strftime('%Y-%m-%d')
LoadDate(text) == FormatDate(<<Num(text, 1, 4), Num(text, 6, 2), Num(text, 9, 2)>>)

\* one row of the DataFrame, from one row of Main_Data
LoadRow(row) ==
    [row EXCEPT !.Employee_ID = Strip(StripLeadingZeros(@)),
                !.Date = LoadDate(@)]

\* load_biometric_data_from_latest_excel: the DataFrame as the list of its
\* rows, or the exception that leaves the function.  With no dashboard, df is
\* read at line 65 before anything was assigned to it (UnboundLocalError),
\* outside the try; a workbook read_excel fails on gives the empty frame.
load_biometric_data_from_latest_excel(fold) ==
    LET file_path == get_latest_processed_excel_path(fold)
    IN  IF file_path = None THEN [raised |-> TRUE, df |-> <<>>]
        ELSE IF ~file_path[1].sheet.complete THEN [raised |-> FALSE, df |-> <<>>]
        ELSE [raised |-> FALSE,
              df |-> [i \in DOMAIN file_path[1].sheet.rows |->
                         LoadRow(file_path[1].sheet.rows[i])]]

\* code points of the characters of ids, dates and filters
Ord(c) ==
    CASE c = " " -> 32 [] c = "-" -> 45 [] c = "/" -> 47 [] c = ":" -> 58
      [] c = "A" -> 65 [] c = "N" -> 78 [] c = "X" -> 88 [] c = "x" -> 120
      [] OTHER -> 48 + DigitVal(c)

\* a <= b on str
RECURSIVE StrLeq(_, _)
StrLeq(a, b) ==
    IF a = <<>> THEN TRUE
    ELSE IF b = <<>> THEN FALSE
    ELSE IF Head(a) # Head(b) THEN Ord(Head(a)) < Ord(Head(b))
    ELSE StrLeq(Tail(a), Tail(b))

\* str.lower()
Lower(str) ==
    [i \in DOMAIN str |->
        CASE str[i] = "A" -> "a" [] str[i] = "N" -> "n" [] str[i] = "X" -> "x"
          [] OTHER -> str[i]]

\* mutant: a row is kept when its id contains the filter
IdContainsFilter(row, employee_id) ==
    employee_id # <<>> =>
        \E i \in 1..(Len(row.Employee_ID) - Len(employee_id) + 1) :
            SubSeq(Lower(row.Employee_ID), i, i + Len(employee_id) - 1)
                = Lower(employee_id)

\* the employee filter: rows kept by
\* result['Employee_ID'].str.lower() == employee_id.lower(), all without filter
IdFilter(row, employee_id) ==
    employee_id # <<>> => Lower(row.Employee_ID) = Lower(employee_id)

\* mutant: the lower bound is exclusive
DateFilterAfter(row, from_date, to_date) ==
    IF from_date # <<>> /\ to_date # <<>>
    THEN ~StrLeq(row.Date, from_date) /\ StrLeq(row.Date, to_date)
    ELSE IF from_date # <<>> THEN ~StrLeq(row.Date, from_date)
    ELSE IF to_date # <<>> THEN StrLeq(row.Date, to_date)
    ELSE TRUE

\* the date filter: the three branches on from_date and to_date
DateFilter(row, from_date, to_date) ==
    IF from_date # <<>> /\ to_date # <<>>
    THEN StrLeq(from_date, row.Date) /\ StrLeq(row.Date, to_date)
    ELSE IF from_date # <<>> THEN StrLeq(from_date, row.Date)
    ELSE IF to_date # <<>> THEN StrLeq(row.Date, to_date)
    ELSE TRUE

\* the rows of df a predicate keeps, in order
RECURSIVE Keep(_, _, _, _, _)
Keep(df, n, employee_id, from_date, to_date) ==
    IF n = 0 THEN <<>>
    ELSE Keep(df, n - 1, employee_id, from_date, to_date)
         \o (IF IdFilter(df[n], employee_id) /\ DateFilter(df[n], from_date, to_date)
             THEN <<df[n]>> ELSE <<>>)

\* what Flask answers when an exception leaves a view
InternalServerError ==
    [status |-> 500, items |-> <<>>, message |-> "none",
     error |-> "Internal server error"]

\* GET /api/search
search_records(fold, args) ==
    LET current == load_biometric_data_from_latest_excel(fold)
        employee_id == Strip(args.employee_id)
        from_date == Strip(args.from_date)
        to_date == Strip(args.to_date)
        result == Keep(current.df, Len(current.df), employee_id, from_date, to_date)
    IN  IF current.raised THEN InternalServerError
        ELSE IF current.df = <<>>
        THEN [status |-> 200, items |-> <<>>, message |-> "No processed data available",
              error |-> "none"]
        ELSE IF result = <<>>
        THEN [status |-> 200, items |-> <<>>, message |-> "No records found",
              error |-> "none"]
        ELSE [status |-> 200, items |-> result, message |-> "none", error |-> "none"]

\* df[['Employee_ID', 'Employee_Name']].drop_duplicates(): first occurrences
RECURSIVE DropDuplicates(_, _)
DropDuplicates(df, n) ==
    IF n = 0 THEN <<>>
    ELSE LET before == DropDuplicates(df, n - 1)
             pair == [Employee_ID |-> df[n].Employee_ID,
                      Employee_Name |-> df[n].Employee_Name]
         IN  IF \E i \in DOMAIN before : before[i] = pair
             THEN before ELSE Append(before, pair)

\* GET /api/employees
get_employees(fold) ==
    LET current == load_biometric_data_from_latest_excel(fold)
    IN  IF current.raised THEN InternalServerError
        ELSE IF current.df = <<>>
        THEN [status |-> 200, items |-> <<>>, message |-> "No processed data available",
              error |-> "none"]
        ELSE [status |-> 200, items |-> DropDuplicates(current.df, Len(current.df)),
              message |-> "none", error |-> "none"]

\* query parameters of the model; the empty text is a parameter not given
IdParams == {<<>>, <<"7">>, <<"0", "0", "7">>, <<"4", "2">>, <<"4">>,
             <<" ", "7">>, <<"X", "7">>}

DateParams == {<<>>, FormatDate(<<2024, 1, 10>>), FormatDate(<<2024, 1, 15>>),
               FormatDate(<<2024, 2, 1>>)}

SearchArgs == [employee_id : IdParams, from_date : DateParams, to_date : DateParams]

NoArgs == [employee_id |-> <<>>, from_date |-> <<>>, to_date |-> <<>>]

----------------------------------------------------------------------------
(* The reconciler as a state machine: a caller picks the arguments, the    *)
(* call returns the records.                                               *)

ReconcileIdle ==
    /\ events = <<>>
    /\ employees = <<>>
    /\ records = <<>>
    /\ rpc = "idle"

ParseIdle ==
    /\ file = [readable |-> FALSE, lines |-> <<>>]
    /\ parsed = <<>>
    /\ ppc = "idle"

QueryIdle ==
    /\ folder = {}
    /\ request = [kind |-> "none", args |-> NoArgs, served |-> TRUE]
    /\ response = [status |-> 0, items |-> <<>>, message |-> "none", error |-> "none"]

ExtractIdle ==
    /\ empfile = MissingFile
    /\ directory = <<>>
    /\ xpc = "idle"
    /\ cursor = 0

ServerIdle ==
    /\ disk = <<>>
    /\ calls = <<>>
    /\ uploads = <<>>
    /\ clock = 0
    /\ seen = <<>>

SummaryIdle ==
    /\ dataframe = <<>>
    /\ employee_stats = None
    /\ attendance_rate = None
    /\ spc = "idle"

InitReconcile ==
    /\ events \in SeqsUpTo(PunchEvents, MaxEvents)
    /\ employees \in Directories
    /\ records = <<>>
    /\ rpc = "ready"
    /\ ParseIdle
    /\ QueryIdle
    /\ ExtractIdle
    /\ ServerIdle
    /\ SummaryIdle

Reconcile ==
    /\ rpc = "ready"
    /\ records' = process_attendance_data(events, employees)
    /\ rpc' = "done"
    /\ UNCHANGED <<events, employees>>
    /\ UNCHANGED <<pvars, qvars, xvars, dvars, svars>>

\* the caller calls once more with the arguments it still holds
ReconcileAgain ==
    /\ rpc = "done"
    /\ records' = process_attendance_data(events, employees)
    /\ rpc' = "again"
    /\ UNCHANGED <<events, employees>>
    /\ UNCHANGED <<pvars, qvars, xvars, dvars, svars>>

NextReconcile == Reconcile \/ ReconcileAgain

SpecReconcile == InitReconcile /\ [][NextReconcile]_vars

----------------------------------------------------------------------------
(* The parser as a state machine: a file is there (or not), the call       *)
(* returns the events.                                                     *)

InitParse ==
    /\ file \in Files
    /\ parsed = <<>>
    /\ ppc = "ready"
    /\ ReconcileIdle
    /\ QueryIdle
    /\ ExtractIdle
    /\ ServerIdle
    /\ SummaryIdle

Parse ==
    /\ ppc = "ready"
    /\ parsed' = parse_attendance_file(file)
    /\ ppc' = "done"
    /\ UNCHANGED file
    /\ UNCHANGED <<rvars, qvars, xvars, dvars, svars>>

NextParse == Parse

SpecParse == InitParse /\ [][NextParse]_vars

----------------------------------------------------------------------------
(* The query service as a state machine: the folder holds what the uploads *)
(* so far have left in it; each request is served from it.                 *)

NoResponse == [status |-> 0, items |-> <<>>, message |-> "none", error |-> "none"]

InitQuery ==
    /\ folder \in Folders
    /\ request = [kind |-> "none", args |-> NoArgs, served |-> TRUE]
    /\ response = NoResponse
    /\ ReconcileIdle
    /\ ParseIdle
    /\ ExtractIdle
    /\ ServerIdle
    /\ SummaryIdle

\* a request reaches the server: its route and query parameters
Receive ==
    /\ request.served
    /\ \E kind \in {"search", "employees"} :
       \E args \in IF kind = "search" THEN SearchArgs ELSE {NoArgs} :
           request' = [kind |-> kind, args |-> args, served |-> FALSE]
    /\ response' = NoResponse
    /\ UNCHANGED folder
    /\ UNCHANGED <<rvars, pvars, xvars, dvars, svars>>

\* the view search_records runs and answers
Search ==
    /\ ~request.served
    /\ request.kind = "search"
    /\ response' = search_records(folder, request.args)
    /\ request' = [request EXCEPT !.served = TRUE]
    /\ UNCHANGED folder
    /\ UNCHANGED <<rvars, pvars, xvars, dvars, svars>>

\* the view get_employees runs and answers
Employees ==
    /\ ~request.served
    /\ request.kind = "employees"
    /\ response' = get_employees(folder)
    /\ request' = [request EXCEPT !.served = TRUE]
    /\ UNCHANGED folder
    /\ UNCHANGED <<rvars, pvars, xvars, dvars, svars>>

NextQuery == Receive \/ Search \/ Employees

SpecQuery == InitQuery /\ [][NextQuery]_vars

----------------------------------------------------------------------------
(* The extractors as a state machine: a file is there (or not); the        *)
(* primary scan is called on its path, or the fallback on its bytes.       *)

InitExtract ==
    /\ empfile \in EmployeeFiles
    /\ directory = <<>>
    /\ xpc = "ready"
    /\ cursor = 0
    /\ ReconcileIdle
    /\ ParseIdle
    /\ QueryIdle
    /\ ServerIdle
    /\ SummaryIdle

PrimaryScan ==
    /\ xpc = "ready"
    /\ directory' = parse_binary_employee_file(empfile)
    /\ xpc' = "primary"
    /\ UNCHANGED <<empfile, cursor>>
    /\ UNCHANGED <<rvars, pvars, qvars, dvars, svars>>

\* the caller has read the bytes from the file
FallbackScan ==
    /\ xpc = "ready"
    /\ empfile.readable
    /\ directory' = extract_names_and_ids_from_binary(empfile.data)
    /\ xpc' = "fallback"
    /\ UNCHANGED <<empfile, cursor>>
    /\ UNCHANGED <<rvars, pvars, qvars, dvars, svars>>

NextExtract == PrimaryScan \/ FallbackScan

SpecExtract == InitExtract /\ [][NextExtract]_vars

----------------------------------------------------------------------------
(* parse_binary_employee_file, one iteration of its scan loop at a time.   *)

\* a file the scan rejects a candidate in, accepts a record in, and then
\* rejects candidates in again
MixedData ==
    <<1>> \o Block(Bob, Id042) \o Encode(Jane \o Id007) \o Encode(Amy \o Id042)

\* the files of the stepwise scan: with records, with none, with a run of
\* four digits, the mixed one, and files whose stretches of 0 bytes hold no
\* candidate at all
ScanData ==
    {<<>>, <<1>>,
     Block(JaneDoe, Id007), Block(Bob, Id1234), Block(JaneDoe, <<>>),
     Block(JaneDoe, Id007) \o Block(Bob, Id007),
     Encode(Jane \o Id007 \o Bob \o Id042),
     MixedData,
     Nul(40),
     Encode(Amy \o Id1234) \o Nul(30),
     <<1>> \o Nul(20) \o Block(Bob, Id042)}

ScanFiles == {MissingFile} \cup {[readable |-> TRUE, data |-> d] : d \in ScanData}

\* lines 53-57: the candidate at start is taken as a name
Accepted(data, start) ==
    LET name_end == NameEnd(data, start)
    IN  name_end > start + 2 /\ IsName(Strip(Decode(data, start, name_end)))

\* mutant: a rejected candidate leaves the cursor where it is
NextPosStuck(data, start) ==
    IF Accepted(data, start) THEN NameEnd(data, start) + 50 ELSE start

\* lines 88-94: the cursor after the iteration
NextPos(data, start) ==
    IF Accepted(data, start) THEN NameEnd(data, start) + 50 ELSE start + 1

InitScan ==
    /\ empfile \in ScanFiles
    /\ directory = <<>>
    /\ xpc = "open"
    /\ cursor = 0
    /\ ReconcileIdle
    /\ ParseIdle
    /\ QueryIdle
    /\ ServerIdle
    /\ SummaryIdle

\* lines 27-38: a missing file returns {}; else the bytes are read
OpenFile ==
    /\ xpc = "open"
    /\ xpc' = IF empfile.readable THEN "scan" ELSE "returned"
    /\ UNCHANGED <<empfile, directory, cursor>>
    /\ UNCHANGED <<rvars, pvars, qvars, dvars, svars>>

\* lines 40-94: one pass through the body of the while loop
ScanStep ==
    /\ xpc = "scan"
    /\ cursor < Len(empfile.data) - 10
    /\ LET data == empfile.data
           name_end == NameEnd(data, cursor)
           potential_id == IF Accepted(data, cursor)
                           THEN FindId(data, SkipNul(data, name_end))
                           ELSE None
       IN  /\ directory' = IF potential_id = None THEN directory
                           ELSE Put(directory, potential_id[1],
                                    Strip(Decode(data, cursor, name_end)))
           /\ cursor' = NextPos(data, cursor)
    /\ UNCHANGED <<empfile, xpc>>
    /\ UNCHANGED <<rvars, pvars, qvars, dvars, svars>>

\* lines 40, 96-97: the loop condition fails and employees is returned
ScanReturn ==
    /\ xpc = "scan"
    /\ ~(cursor < Len(empfile.data) - 10)
    /\ xpc' = "returned"
    /\ UNCHANGED <<empfile, directory, cursor>>
    /\ UNCHANGED <<rvars, pvars, qvars, dvars, svars>>

NextScan == OpenFile \/ ScanStep \/ ScanReturn

SpecScan == InitScan /\ [][NextScan]_vars

\* the interpreter keeps running the call: a step that can be taken is taken
SpecScanFair == SpecScan /\ WF_vars(NextScan)

----------------------------------------------------------------------------
(* process_biometric_data_for_excel_dashboard, step by step.               *)
(*                                                                         *)
(* A path of UPLOAD_FOLDER is [kind, stamp, name]: the fixed text of the   *)
(* file name, the timestamp in it and the client's file name in it.        *)

RawEmployeePath(timestamp, emp_filename) ==
    [kind |-> "emp_raw", stamp |-> timestamp, name |-> emp_filename]

RawAttendancePath(timestamp, att_filename) ==
    [kind |-> "att_raw", stamp |-> timestamp, name |-> att_filename]

OutputPath(timestamp) ==
    [kind |-> "interactive_attendance_charts", stamp |-> timestamp,
     name |-> <<".", "x", "l", "s", "x">>]

\* a file: its content, its modification time, whether its content is all
\* there, the calls that hold it open for writing, and whether two of them
\* have written it at once
NewFile(data, mtime) ==
    [data |-> data, mtime |-> mtime, complete |-> TRUE, writers |-> {}, torn |-> FALSE]

\* os.path.exists and os.remove
Exists(d, path) == path \in DOMAIN d

Remove(d, path) == [p \in DOMAIN d \ {path} |-> d[p]]

\* what the extractors and the parser find at a path
EmployeeFileAt(d, path) ==
    IF Exists(d, path) THEN [readable |-> TRUE, data |-> d[path].data] ELSE MissingFile

AttendanceFileAt(d, path) ==
    IF Exists(d, path) THEN [readable |-> TRUE, lines |-> d[path].data]
    ELSE [readable |-> FALSE, lines |-> <<>>]

\* the frame of a call: where it is, its arguments, its locals
NewCall(employee_file_path, attendance_file_path, output_excel_path) ==
    [pc |-> "scan",
     employee_file_path |-> employee_file_path,
     attendance_file_path |-> attendance_file_path,
     output_excel_path |-> output_excel_path,
     employees |-> <<>>,
     attendance_records |-> <<>>,
     processed_data |-> <<>>,
     success |-> FALSE]

\* mutant: the fallback runs whatever the primary scan returned
AfterPrimaryAlways(found) == "fallback"

\* line 803: 'if not employees:' after the primary scan
AfterPrimary(found) == IF found = <<>> THEN "fallback" ELSE "parse"

\* mutant: the call goes on with an empty directory
AfterDirectoryAnyway(found) == "parse"

\* lines 812-814: 'if not employees: return False'
AfterDirectory(found) == IF found = <<>> THEN "returned" ELSE "parse"

\* line 801: the primary scan of the employee file
ScanEmployees(c) ==
    /\ calls[c].pc = "scan"
    /\ LET found == parse_binary_employee_file(
                        EmployeeFileAt(disk, calls[c].employee_file_path))
       IN  calls' = [calls EXCEPT ![c].employees = found,
                                  ![c].pc = IF AfterPrimary(found) = "fallback"
                                            THEN "fallback"
                                            ELSE AfterDirectory(found)]
    /\ UNCHANGED <<disk, uploads, clock, seen>>
    /\ UNCHANGED <<rvars, pvars, qvars, xvars, svars>>

\* lines 803-814: the fallback on the bytes of the file; open() raising is
\* caught and leaves the directory empty
TryFallback(c) ==
    /\ calls[c].pc = "fallback"
    /\ LET f == EmployeeFileAt(disk, calls[c].employee_file_path)
           found == IF f.readable THEN extract_names_and_ids_from_binary(f.data)
                    ELSE <<>>
       IN  calls' = [calls EXCEPT ![c].employees = found,
                                  ![c].pc = AfterDirectory(found)]
    /\ UNCHANGED <<disk, uploads, clock, seen>>
    /\ UNCHANGED <<rvars, pvars, qvars, xvars, svars>>

\* lines 816-824: the events of the attendance file and their day records
LoadAttendance(c) ==
    /\ calls[c].pc = "parse"
    /\ LET attendance_records ==
               parse_attendance_file(
                   AttendanceFileAt(disk, calls[c].attendance_file_path))
           processed_data ==
               IF attendance_records = <<>> THEN <<>>
               ELSE process_attendance_data(attendance_records, calls[c].employees)
       IN  calls' = [calls EXCEPT
                        ![c].attendance_records = attendance_records,
                        ![c].processed_data = processed_data,
                        ![c].pc = IF processed_data = <<>> THEN "returned"
                                  ELSE "report"]
    /\ UNCHANGED <<disk, uploads, clock, seen>>
    /\ UNCHANGED <<rvars, pvars, qvars, xvars, svars>>

\* lines 260-284: building the workbook raises before wb.save has opened
\* the output file; the function returns False
ReportRaises(c) ==
    /\ calls[c].pc = "report"
    /\ calls' = [calls EXCEPT ![c].pc = "returned"]
    /\ UNCHANGED <<disk, uploads, clock, seen>>
    /\ UNCHANGED <<rvars, pvars, qvars, xvars, svars>>

\* line 277: wb.save opens output_file for writing, which creates it or
\* empties it
OpenOutput(c) ==
    /\ calls[c].pc = "report"
    /\ LET path == calls[c].output_excel_path
           open == IF Exists(disk, path) THEN disk[path].writers ELSE {}
       IN  disk' = Put(disk, path,
                       [data |-> <<>>, mtime |-> clock, complete |-> FALSE,
                        writers |-> open \cup {c}, torn |-> open # {}])
    /\ calls' = [calls EXCEPT ![c].pc = "saving"]
    /\ UNCHANGED <<uploads, clock, seen>>
    /\ UNCHANGED <<rvars, pvars, qvars, xvars, svars>>

\* line 277: wb.save has written everything and closes the file.  A file
\* that was removed meanwhile stays removed; one that two calls have written
\* at once ends up whole or not
FinishSave(c) ==
    /\ calls[c].pc = "saving"
    /\ LET path == calls[c].output_excel_path
       IN  IF Exists(disk, path) /\ c \in disk[path].writers
           THEN \E whole \in BOOLEAN :
                   /\ disk[path].torn \/ whole
                   /\ disk[path].writers # {c} => ~whole
                   /\ disk' = Put(disk, path,
                          [data |-> IF whole THEN calls[c].processed_data ELSE <<>>,
                           mtime |-> clock, complete |-> whole,
                           writers |-> disk[path].writers \ {c},
                           torn |-> disk[path].torn])
           ELSE disk' = disk
    /\ calls' = [calls EXCEPT ![c].pc = "summary", ![c].success = TRUE]
    /\ UNCHANGED <<uploads, clock, seen>>
    /\ UNCHANGED <<rvars, pvars, qvars, xvars, svars>>

\* lines 281-284: wb.save raises partway; what it has written stays, and the
\* function returns False
FailSave(c) ==
    /\ calls[c].pc = "saving"
    /\ LET path == calls[c].output_excel_path
       IN  IF Exists(disk, path) /\ c \in disk[path].writers
           THEN disk' = [disk EXCEPT ![path].writers = @ \ {c}]
           ELSE disk' = disk
    /\ calls' = [calls EXCEPT ![c].pc = "returned"]
    /\ UNCHANGED <<uploads, clock, seen>>
    /\ UNCHANGED <<rvars, pvars, qvars, xvars, svars>>

\* lines 828-834: print_summary has printed; the function returns True
PrintSummary(c) ==
    /\ calls[c].pc = "summary"
    /\ calls' = [calls EXCEPT ![c].pc = "returned"]
    /\ UNCHANGED <<disk, uploads, clock, seen>>
    /\ UNCHANGED <<rvars, pvars, qvars, xvars, svars>>

\* line 829: a print of print_summary raises (stdout is closed or full); no
\* handler of the function catches it
PrintSummaryRaises(c) ==
    /\ calls[c].pc = "summary"
    /\ calls' = [calls EXCEPT ![c].pc = "raised"]
    /\ UNCHANGED <<disk, uploads, clock, seen>>
    /\ UNCHANGED <<rvars, pvars, qvars, xvars, svars>>

\* the files a call finds: employee files of both layouts, with one record,
\* with two records of one id, with none
EmployeeUploads ==
    {<<>>, <<1>>,
     Block(JaneDoe, Id007), Block(Bob, Id042), Block(JaneDoe, <<>>),
     Block(JaneDoe, Id007) \o Block(Bob, Id007),
     Encode(Jane \o Id007), Encode(Jane \o Id007 \o Bob \o Id042),
     Encode(Amy \o Id1234)}

UploadedEmployeeFiles ==
    {MissingFile} \cup {[readable |-> TRUE, data |-> d] : d \in EmployeeUploads}

\* attendance files of the model
AttendanceFiles ==
    {[readable |-> FALSE, lines |-> <<>>]}
    \cup {[readable |-> TRUE, lines |-> ls] :
            ls \in {<<>>, <<LineInA>>, <<LineInA, LineOutA>>, <<LineB>>, <<LineBadId>>}}

EmployeesDat == <<"e", "m", "p", "l", "o", "y", "e", "e", "s", ".", "d", "a", "t">>

AttendanceTxt == <<"a", "t", "t", "e", "n", "d", "a", "n", "c", "e", ".", "t", "x", "t">>

\* a dashboard an earlier run has left at the output path
OldDashboard == NewFile(OldSheet.rows, 0)

\* the folder with the two raw files (those that are there) and, or not,
\* an earlier dashboard at the output path
DiskOf(emp, att, old) ==
    LET d1 == IF emp.readable
              THEN Put(<<>>, RawEmployeePath(1, EmployeesDat), NewFile(emp.data, 0))
              ELSE <<>>
        d2 == IF att.readable
              THEN Put(d1, RawAttendancePath(1, AttendanceTxt), NewFile(att.lines, 0))
              ELSE d1
    IN  IF old THEN Put(d2, OutputPath(1), OldDashboard) ELSE d2

\* one call, by a caller that is no upload request
InitPipeline ==
    /\ \E emp \in UploadedEmployeeFiles, att \in AttendanceFiles, old \in BOOLEAN :
           disk = DiskOf(emp, att, old)
    /\ calls = [c \in {0} |->
                   NewCall(RawEmployeePath(1, EmployeesDat),
                           RawAttendancePath(1, AttendanceTxt),
                           OutputPath(1))]
    /\ uploads = <<>>
    /\ clock = 1
    /\ seen = <<>>
    /\ ReconcileIdle
    /\ ParseIdle
    /\ QueryIdle
    /\ ExtractIdle
    /\ SummaryIdle

NextPipeline ==
    \/ \E c \in DOMAIN calls : ScanEmployees(c)
    \/ \E c \in DOMAIN calls : TryFallback(c)
    \/ \E c \in DOMAIN calls : LoadAttendance(c)
    \/ \E c \in DOMAIN calls : ReportRaises(c)
    \/ \E c \in DOMAIN calls : OpenOutput(c)
    \/ \E c \in DOMAIN calls : FinishSave(c)
    \/ \E c \in DOMAIN calls : FailSave(c)
    \/ \E c \in DOMAIN calls : PrintSummary(c)
    \/ \E c \in DOMAIN calls : PrintSummaryRaises(c)

SpecPipeline == InitPipeline /\ [][NextPipeline]_vars

----------------------------------------------------------------------------
(* upload_files_and_process, step by step, and the requests that read the  *)
(* latest dashboard, on the threads of one server.                         *)

\* a file part of the form: its client file name and its content
Part(filename, content) == <<[filename |-> filename, content |-> content]>>

StaffDat == <<"m", "y", " ", "s", "t", "a", "f", "f", ".", "d", "a", "t">>

AttendanceCsv == <<"a", "t", "t", "e", "n", "d", "a", "n", "c", "e", ".", "c", "s", "v">>

\* the forms of the model: one that gives a dashboard (two requests can
\* carry it); one whose employee file holds no employee, with an attendance
\* file of the same name and other content; and two the validation rejects
UploadForms ==
    {[employee_file |-> Part(EmployeesDat, Block(JaneDoe, Id007)),
      attendance_file |-> Part(AttendanceTxt, <<LineInA, LineOutA>>)],
     [employee_file |-> Part(StaffDat, <<1>>),
      attendance_file |-> Part(AttendanceTxt, <<LineInA>>)],
     [employee_file |-> Part(EmployeesDat, Block(JaneDoe, Id007)),
      attendance_file |-> Part(AttendanceCsv, <<LineInA>>)],
     [employee_file |-> Part(<<>>, <<>>),
      attendance_file |-> None]}

\* str.endswith
EndsWith(text, suffix) ==
    /\ Len(text) >= Len(suffix)
    /\ SubSeq(text, Len(text) - Len(suffix) + 1, Len(text)) = suffix

\* lines 225-238: the form has both parts, both with a file name, and the
\* attendance file name ends in .txt or .dat
Valid(form) ==
    /\ form.employee_file # None
    /\ form.attendance_file # None
    /\ form.employee_file[1].filename # <<>>
    /\ form.attendance_file[1].filename # <<>>
    /\ \/ EndsWith(Lower(form.attendance_file[1].filename), <<".", "t", "x", "t">>)
       \/ EndsWith(Lower(form.attendance_file[1].filename), <<".", "d", "a", "t">>)

\* werkzeug's secure_filename on the file names of the model: white space
\* becomes an underscore
secure_filename(filename) ==
    [i \in DOMAIN filename |-> IF filename[i] \in Whitespace THEN "_" ELSE filename[i]]

\* strftime("%Y%m%d_%H%M%S") of the clock: the second it shows
Timestamp(now) == now

\* the state of a request: where it is, its form, the locals of the view
\* and the status of its response (0 until it has one)
NewUpload(form) ==
    [pc |-> "validate", form |-> form, timestamp |-> 0,
     raw_employee_file_path |-> None, raw_attendance_file_path |-> None,
     output_excel_path |-> None, status |-> 0]

\* a request reaches the server
Arrive(u) ==
    /\ u \notin DOMAIN uploads
    /\ u = Cardinality(DOMAIN uploads) + 1
    /\ \E form \in UploadForms : uploads' = Put(uploads, u, NewUpload(form))
    /\ UNCHANGED <<disk, calls, clock, seen>>
    /\ UNCHANGED <<rvars, pvars, qvars, xvars, svars>>

\* lines 225-238: the validation answers 400
Reject(u) ==
    /\ uploads[u].pc = "validate"
    /\ ~Valid(uploads[u].form)
    /\ uploads' = [uploads EXCEPT ![u].pc = "done", ![u].status = 400]
    /\ UNCHANGED <<disk, calls, clock, seen>>
    /\ UNCHANGED <<rvars, pvars, qvars, xvars, svars>>

\* lines 248-255: the timestamp is read off the clock and the raw paths
\* are made of it
Stamp(u) ==
    /\ uploads[u].pc = "validate"
    /\ Valid(uploads[u].form)
    /\ LET timestamp == Timestamp(clock)
           emp_filename == secure_filename(uploads[u].form.employee_file[1].filename)
           att_filename == secure_filename(uploads[u].form.attendance_file[1].filename)
       IN  uploads' = [uploads EXCEPT
               ![u].pc = "save_employee",
               ![u].timestamp = timestamp,
               ![u].raw_employee_file_path = RawEmployeePath(timestamp, emp_filename),
               ![u].raw_attendance_file_path = RawAttendancePath(timestamp, att_filename)]
    /\ UNCHANGED <<disk, calls, clock, seen>>
    /\ UNCHANGED <<rvars, pvars, qvars, xvars, svars>>

\* line 257: employee_file.save
SaveEmployee(u) ==
    /\ uploads[u].pc = "save_employee"
    /\ disk' = Put(disk, uploads[u].raw_employee_file_path,
                   NewFile(uploads[u].form.employee_file[1].content, clock))
    /\ uploads' = [uploads EXCEPT ![u].pc = "save_attendance"]
    /\ UNCHANGED <<calls, clock, seen>>
    /\ UNCHANGED <<rvars, pvars, qvars, xvars, svars>>

\* lines 258-272: attendance_file.save, the output path, and the call of
\* the pipeline
SaveAttendance(u) ==
    /\ uploads[u].pc = "save_attendance"
    /\ disk' = Put(disk, uploads[u].raw_attendance_file_path,
                   NewFile(uploads[u].form.attendance_file[1].content, clock))
    /\ uploads' = [uploads EXCEPT
                      ![u].pc = "processing",
                      ![u].output_excel_path = OutputPath(uploads[u].timestamp)]
    /\ calls' = Put(calls, u, NewCall(uploads[u].raw_employee_file_path,
                                      uploads[u].raw_attendance_file_path,
                                      OutputPath(uploads[u].timestamp)))
    /\ UNCHANGED <<clock, seen>>
    /\ UNCHANGED <<rvars, pvars, qvars, xvars, svars>>

\* lines 274-279: the pipeline returned True
RespondSuccess(u) ==
    /\ uploads[u].pc = "processing"
    /\ calls[u].pc = "returned"
    /\ calls[u].success
    /\ uploads' = [uploads EXCEPT ![u].pc = "finally", ![u].status = 200]
    /\ UNCHANGED <<disk, calls, clock, seen>>
    /\ UNCHANGED <<rvars, pvars, qvars, xvars, svars>>

\* lines 280-284: the pipeline returned False; the file at the output path,
\* if there is one, is removed
RespondFailure(u) ==
    /\ uploads[u].pc = "processing"
    /\ calls[u].pc = "returned"
    /\ ~calls[u].success
    /\ disk' = IF Exists(disk, uploads[u].output_excel_path)
               THEN Remove(disk, uploads[u].output_excel_path)
               ELSE disk
    /\ uploads' = [uploads EXCEPT ![u].pc = "finally", ![u].status = 500]
    /\ UNCHANGED <<calls, clock, seen>>
    /\ UNCHANGED <<rvars, pvars, qvars, xvars, svars>>

\* lines 286-290: the pipeline raised
RespondError(u) ==
    /\ uploads[u].pc = "processing"
    /\ calls[u].pc = "raised"
    /\ uploads' = [uploads EXCEPT ![u].pc = "finally", ![u].status = 500]
    /\ UNCHANGED <<disk, calls, clock, seen>>
    /\ UNCHANGED <<rvars, pvars, qvars, xvars, svars>>

\* lines 291-296, the finally clause, one system call at a time: another
\* request can run between os.path.exists and os.remove

\* line 293: os.path.exists(raw_employee_file_path)
CheckEmployee(u) ==
    /\ uploads[u].pc = "finally"
    /\ uploads' = [uploads EXCEPT ![u].pc =
                      IF Exists(disk, uploads[u].raw_employee_file_path)
                      THEN "remove_employee" ELSE "check_attendance"]
    /\ UNCHANGED <<disk, calls, clock, seen>>
    /\ UNCHANGED <<rvars, pvars, qvars, xvars, svars>>

\* line 294: os.remove(raw_employee_file_path); it raises FileNotFoundError
\* when the file is gone by now, which leaves the view from inside its
\* finally clause and is answered 500
RemoveEmployee(u) ==
    /\ uploads[u].pc = "remove_employee"
    /\ IF Exists(disk, uploads[u].raw_employee_file_path)
       THEN /\ disk' = Remove(disk, uploads[u].raw_employee_file_path)
            /\ uploads' = [uploads EXCEPT ![u].pc = "check_attendance"]
       ELSE /\ disk' = disk
            /\ uploads' = [uploads EXCEPT ![u].pc = "done", ![u].status = 500]
    /\ UNCHANGED <<calls, clock, seen>>
    /\ UNCHANGED <<rvars, pvars, qvars, xvars, svars>>

\* line 295: os.path.exists(raw_attendance_file_path); the response goes
\* out when there is nothing to remove
CheckAttendance(u) ==
    /\ uploads[u].pc = "check_attendance"
    /\ uploads' = [uploads EXCEPT ![u].pc =
                      IF Exists(disk, uploads[u].raw_attendance_file_path)
                      THEN "remove_attendance" ELSE "done"]
    /\ UNCHANGED <<disk, calls, clock, seen>>
    /\ UNCHANGED <<rvars, pvars, qvars, xvars, svars>>

\* line 296: os.remove(raw_attendance_file_path), and the response goes out
RemoveAttendance(u) ==
    /\ uploads[u].pc = "remove_attendance"
    /\ IF Exists(disk, uploads[u].raw_attendance_file_path)
       THEN /\ disk' = Remove(disk, uploads[u].raw_attendance_file_path)
            /\ uploads' = [uploads EXCEPT ![u].pc = "done"]
       ELSE /\ disk' = disk
            /\ uploads' = [uploads EXCEPT ![u].pc = "done", ![u].status = 500]
    /\ UNCHANGED <<calls, clock, seen>>
    /\ UNCHANGED <<rvars, pvars, qvars, xvars, svars>>

\* the dashboards of the folder, as get_latest_processed_excel_path lists
\* them: the files named interactive_attendance_charts_*.xlsx
Dashboards(d) ==
    {[name |-> p.stamp, mtime |-> d[p].mtime,
      sheet |-> [complete |-> d[p].complete, rows |-> d[p].data]] :
        p \in {q \in DOMAIN d : q.kind = "interactive_attendance_charts"}}

\* files sorted by modification time, newest first: files[0] is a file no
\* other is newer than
Newest(fold) == {a \in fold : \A b \in fold : b.mtime <= a.mtime}

\* a search, employees, health or download request looks the latest
\* dashboard up: it gets None, or the path of a newest one
LatestLookup ==
    /\ seen = <<>>
    /\ IF Dashboards(disk) = {} THEN seen' = <<None>>
       ELSE \E a \in Newest(Dashboards(disk)) : seen' = <<<<a>>>>
    /\ UNCHANGED <<disk, calls, uploads, clock>>
    /\ UNCHANGED <<rvars, pvars, qvars, xvars, svars>>

\* a second passes
Tick ==
    /\ clock < MaxClock
    /\ clock' = clock + 1
    /\ UNCHANGED <<disk, calls, uploads, seen>>
    /\ UNCHANGED <<rvars, pvars, qvars, xvars, svars>>

\* the folder is empty, or holds the dashboard of an earlier upload
InitUpload ==
    /\ disk \in {<<>>, Put(<<>>, OutputPath(0), OldDashboard)}
    /\ calls = <<>>
    /\ uploads = <<>>
    /\ clock = 1
    /\ seen = <<>>
    /\ ReconcileIdle
    /\ ParseIdle
    /\ QueryIdle
    /\ ExtractIdle
    /\ SummaryIdle

NextUpload ==
    \/ \E u \in 1..MaxUploads : Arrive(u)
    \/ \E u \in DOMAIN uploads : Reject(u)
    \/ \E u \in DOMAIN uploads : Stamp(u)
    \/ \E u \in DOMAIN uploads : SaveEmployee(u)
    \/ \E u \in DOMAIN uploads : SaveAttendance(u)
    \/ \E c \in DOMAIN calls : ScanEmployees(c)
    \/ \E c \in DOMAIN calls : TryFallback(c)
    \/ \E c \in DOMAIN calls : LoadAttendance(c)
    \/ \E c \in DOMAIN calls : ReportRaises(c)
    \/ \E c \in DOMAIN calls : OpenOutput(c)
    \/ \E c \in DOMAIN calls : FinishSave(c)
    \/ \E c \in DOMAIN calls : FailSave(c)
    \/ \E c \in DOMAIN calls : PrintSummary(c)
    \/ \E c \in DOMAIN calls : PrintSummaryRaises(c)
    \/ \E u \in DOMAIN uploads : RespondSuccess(u)
    \/ \E u \in DOMAIN uploads : RespondFailure(u)
    \/ \E u \in DOMAIN uploads : RespondError(u)
    \/ \E u \in DOMAIN uploads : CheckEmployee(u)
    \/ \E u \in DOMAIN uploads : RemoveEmployee(u)
    \/ \E u \in DOMAIN uploads : CheckAttendance(u)
    \/ \E u \in DOMAIN uploads : RemoveAttendance(u)
    \/ LatestLookup
    \/ Tick

SpecUpload == InitUpload /\ [][NextUpload]_vars

----------------------------------------------------------------------------
(* create_comparison_sheet and print_summary: the figures they compute     *)
(* from the day records.                                                   *)

\* the days of the records handed to the summaries
SummaryDates == Dates \cup {<<2024, 2, 2>>}

\* the columns of a day record the two functions read; a late record is
\* not an ABSENT one; Working_Hours in hundredths of an hour, fitting the
\* status
DayRows ==
    {[Employee_ID |-> i, Employee_Name |-> NameOf[i], Date |-> d,
      Status |-> k[1], Is_Late |-> k[2], Working_Hours |-> k[3]] :
        i \in Ids, d \in SummaryDates,
        k \in {<<"ABSENT", FALSE, 0>>, <<"PRESENT", FALSE, 800>>,
               <<"PRESENT", TRUE, 750>>, <<"HALF_DAY", FALSE, 500>>}}

\* df.groupby(['Employee_ID', 'Employee_Name']): the keys, and the rows of one
GroupKeys(frame) ==
    {<<frame[i].Employee_ID, frame[i].Employee_Name>> : i \in DOMAIN frame}

GroupRows(frame, key) ==
    {i \in DOMAIN frame : <<frame[i].Employee_ID, frame[i].Employee_Name>> = key}

\* mutant: every record of the employee counts as a present day
PresentDaysAll(frame, key) == Cardinality(GroupRows(frame, key))

\* 'Status': lambda x: (x != 'ABSENT').sum()
PresentDays(frame, key) ==
    Cardinality({i \in GroupRows(frame, key) : frame[i].Status # "ABSENT"})

\* 'Is_Late': 'sum'
LateCount(frame, key) ==
    Cardinality({i \in GroupRows(frame, key) : frame[i].Is_Late})

\* round(num / den * 100, 1), in tenths of a percent, for 0 <= num <= den;
\* num / den * 1000 lies halfway between two integers for no den below 16
RoundPercent(num, den) == (2000 * num + den) \div (2 * den)

\* lines 663-666
PunctualityRate(present_days, late_count) ==
    IF present_days > 0 THEN RoundPercent(present_days - late_count, present_days)
    ELSE 0

\* the record lists with one record per employee and day, as
\* process_attendance_data builds them
DayFrames ==
    {frame \in SeqsUpTo(DayRows, MaxRows) :
        \A i, j \in DOMAIN frame :
            (frame[i].Employee_ID = frame[j].Employee_ID
                /\ frame[i].Date = frame[j].Date) => i = j}

\* 'Working_Hours': 'sum', over the first n records
RECURSIVE TotalHours(_, _, _)
TotalHours(frame, key, n) ==
    IF n = 0 THEN 0
    ELSE TotalHours(frame, key, n - 1)
         + (IF n \in GroupRows(frame, key) THEN frame[n].Working_Hours ELSE 0)

\* 'Working_Hours': 'count'
DaysCount(frame, key) == Cardinality(GroupRows(frame, key))

\* 'Working_Hours': 'mean', with .round(2): to the nearest hundredth (the
\* hours of the model give no mean halfway between two hundredths)
AvgHours(frame, key) ==
    (2 * TotalHours(frame, key, Len(frame)) + DaysCount(frame, key))
        \div (2 * DaysCount(frame, key))

\* lines 655-666: employee_stats, by group key
EmployeeStats(frame) ==
    [key \in GroupKeys(frame) |->
        [Avg_Hours |-> AvgHours(frame, key),
         Total_Hours |-> TotalHours(frame, key, Len(frame)),
         Days_Count |-> DaysCount(frame, key),
         Late_Count |-> LateCount(frame, key),
         Present_Days |-> PresentDays(frame, key),
         Punctuality_Rate |->
             PunctualityRate(PresentDays(frame, key), LateCount(frame, key))]]

\* lines 661, 668: the columns of employee_stats after reset_index()
StatsColumns ==
    <<"Employee_ID", "Employee_Name", "Avg_Hours", "Total_Hours", "Days_Count",
      "Late_Count", "Present_Days", "Punctuality_Rate">>

\* line 671
headers ==
    <<"Employee_ID", "Employee_Name", "Avg_Hours", "Total_Hours", "Present_Days",
      "Late_Count", "Punctuality_Rate">>

\* the value of a row of employee_stats at a column position
RowValue(stats, key, col) ==
    CASE col = 1 -> key[1]
      [] col = 2 -> key[2]
      [] col = 3 -> stats[key].Avg_Hours
      [] col = 4 -> stats[key].Total_Hours
      [] col = 5 -> stats[key].Days_Count
      [] col = 6 -> stats[key].Late_Count
      [] col = 7 -> stats[key].Present_Days
      [] col = 8 -> stats[key].Punctuality_Rate

\* line 679: the sheet row of a group; groupby has sorted the keys, and
\* the rows are numbered from 4
RowIndex(keys, key) == 3 + Cardinality({k \in keys : StrLeq(k[1], key[1])})

\* lines 673-682: the cells written, <<row, column>> -> value: the headers
\* in row 3, then every value of every row of employee_stats in turn
Worksheet(stats) ==
    LET keys == DOMAIN stats
        cells == ({3} \X (1..Len(headers)))
                 \cup {<<RowIndex(keys, k), c>> : k \in keys, c \in 1..Len(StatsColumns)}
    IN  [cell \in cells |->
            IF cell[1] = 3 THEN headers[cell[2]]
            ELSE RowValue(stats,
                          CHOOSE k \in keys : RowIndex(keys, k) = cell[1],
                          cell[2])]

\* lines 655-682: the table and the worksheet; groupby raises KeyError on
\* the DataFrame of an empty list, which has no column
create_comparison_sheet(frame) ==
    IF frame = <<>> THEN None
    ELSE <<EmployeeStats(frame), Worksheet(EmployeeStats(frame))>>

\* df[['Employee_ID', 'Date']].drop_duplicates()
DayKeys(frame) == {<<frame[i].Employee_ID, frame[i].Date>> : i \in DOMAIN frame}

\* df[df['Status'].isin(['PRESENT', 'HALF_DAY'])][['Employee_ID', 'Date']]
\*     .drop_duplicates()
PresentDayKeys(frame) ==
    {<<frame[i].Employee_ID, frame[i].Date>> :
        i \in {j \in DOMAIN frame : frame[j].Status \in {"PRESENT", "HALF_DAY"}}}

\* lines 760-771: attendance_rate as the fraction <<numerator, denominator>>;
\* df['Employee_ID'] at line 762 raises KeyError on the DataFrame of an empty
\* list, and then there is no rate
print_summary(frame) ==
    IF frame = <<>> THEN None
    ELSE LET total_days_recorded == Cardinality(DayKeys(frame))
             present_days_recorded == Cardinality(PresentDayKeys(frame))
         IN  IF total_days_recorded > 0
             THEN <<<<present_days_recorded * 100, total_days_recorded>>>>
             ELSE <<<<0, 1>>>>

\* the summaries as a state machine: the day records are there; either
\* function is called on them
InitSummary ==
    /\ dataframe \in DayFrames
    /\ employee_stats = None
    /\ attendance_rate = None
    /\ spc = "ready"
    /\ ReconcileIdle
    /\ ParseIdle
    /\ QueryIdle
    /\ ExtractIdle
    /\ ServerIdle

CompareEmployees ==
    /\ spc = "ready"
    /\ employee_stats' = create_comparison_sheet(dataframe)
    /\ spc' = "compared"
    /\ UNCHANGED <<dataframe, attendance_rate>>
    /\ UNCHANGED <<rvars, pvars, qvars, xvars, dvars>>

Summarise ==
    /\ spc = "ready"
    /\ attendance_rate' = print_summary(dataframe)
    /\ spc' = "printed"
    /\ UNCHANGED <<dataframe, employee_stats>>
    /\ UNCHANGED <<rvars, pvars, qvars, xvars, dvars>>

NextSummary == CompareEmployees \/ Summarise

SpecSummary == InitSummary /\ [][NextSummary]_vars

----------------------------------------------------------------------------
(* Properties of process_attendance_data.                                  *)

\* the (employee_id, date) pairs that occur among the events
EventPairs == {<<events[i].employee_id, events[i].date>> : i \in DOMAIN events}

\* the punch times of one employee-day, and how many events it has
PunchesOf(id, d) ==
    {i \in DOMAIN events : events[i].employee_id = id /\ events[i].date = d}

TimesOf(id, d) == {events[i].time : i \in PunchesOf(id, d)}

Earliest(ts) == CHOOSE t \in ts : \A u \in ts : Secs(t) <= Secs(u)

Latest(ts) == CHOOSE t \in ts : \A u \in ts : Secs(u) <= Secs(t)

\* the records of one employee-day
RecordsOf(id, d) ==
    {i \in DOMAIN records :
        records[i].Employee_ID = id /\ records[i].Date = FormatDate(d)}

\* reading a rendered HH:MM:SS back
TimeOfText(s) == <<10 * DigitVal(s[1]) + DigitVal(s[2]),
                   10 * DigitVal(s[4]) + DigitVal(s[5]),
                   10 * DigitVal(s[7]) + DigitVal(s[8])>>

\* C1: the output holds exactly one record for each (employee_id, date) pair
\* that occurs among the events, and no record for any other pair.
C1_OneRecordPerEmployeeDay ==
    rpc = "done" =>
        /\ \A id \in Ids, d \in Dates :
              Cardinality(RecordsOf(id, d)) =
                  IF <<id, d>> \in EventPairs THEN 1 ELSE 0
        /\ Len(records) = Cardinality(EventPairs)

\* two punches of one employee-day, at different times, have been folded
\* into one record
C1_Witness ==
    /\ rpc = "done"
    /\ Len(events) = 2
    /\ events[1].employee_id = events[2].employee_id
    /\ events[1].date = events[2].date
    /\ events[1].time # events[2].time
    /\ Len(records) = 1

\* C2: Check_In is the earliest punch time of the group; Check_Out is the
\* latest when the group has two or more events, and is 'N/A' with
\* Working_Hours 0 when the group has exactly one event.
C2_CheckInEarliestCheckOutLatest ==
    rpc = "done" =>
        \A p \in EventPairs : \A i \in RecordsOf(p[1], p[2]) :
            LET n == Cardinality(PunchesOf(p[1], p[2]))
                ts == TimesOf(p[1], p[2])
            IN  /\ records[i].Check_In = FormatTime(Earliest(ts))
                /\ n >= 2 => records[i].Check_Out = FormatTime(Latest(ts))
                /\ n = 1 => /\ records[i].Check_Out = NA
                            /\ records[i].Working_Hours = 0

\* a group whose later punch came first in the list has been reconciled
C2_Witness ==
    /\ rpc = "done"
    /\ Len(events) = 2
    /\ events[1].employee_id = events[2].employee_id
    /\ events[1].date = events[2].date
    /\ Secs(events[1].time) > Secs(events[2].time)
    /\ records[1].Check_In = FormatTime(events[2].time)
    /\ records[1].Check_Out = FormatTime(events[1].time)

\* C3: Status agrees with the record's own Working_Hours (the rounded value
\* it reports): HALF_DAY iff 4 <= Working_Hours < 7, PRESENT iff
\* Working_Hours >= 7 or Working_Hours < 4 with a check-in present.
C3_StatusAgreesWithReportedHours ==
    rpc = "done" =>
        \A i \in DOMAIN records :
            LET wh == records[i].Working_Hours
            IN  /\ records[i].Status = "HALF_DAY" <=> (400 <= wh /\ wh < 700)
                /\ records[i].Status = "PRESENT" <=>
                      (wh >= 700 \/ (wh < 400 /\ records[i].Check_In # NA))

\* C4: Is_Late is true iff Check_In is strictly later than 09:30:00;
\* Late_Minutes is the whole minutes from 09:30:00 to Check_In when late
\* (09:45:00 gives 15, 09:30:01 gives 0) and 0 when not late.
C4_LateStrictlyAfterOfficeStart ==
    rpc = "done" =>
        \A i \in DOMAIN records :
            LET r == records[i]
                at == Secs(TimeOfText(r.Check_In))
                start == 9 * 3600 + 30 * 60
            IN  r.Check_In # NA =>
                    /\ r.Is_Late <=> at > start
                    /\ r.Late_Minutes =
                           IF at > start THEN (at - start) \div 60 ELSE 0
                    /\ r.Check_In = FormatTime(<<9, 30, 0>>) => ~r.Is_Late
                    /\ r.Check_In = FormatTime(<<9, 30, 1>>) =>
                           r.Is_Late /\ r.Late_Minutes = 0
                    /\ r.Check_In = FormatTime(<<9, 45, 0>>) =>
                           r.Is_Late /\ r.Late_Minutes = 15

\* one record checked in at 09:30:00 sharp and another at 09:30:01
C4_Witness ==
    /\ rpc = "done"
    /\ \E i \in DOMAIN records :
          records[i].Check_In = FormatTime(<<9, 30, 0>>) /\ ~records[i].Is_Late
    /\ \E i \in DOMAIN records :
          /\ records[i].Check_In = FormatTime(<<9, 30, 1>>)
          /\ records[i].Is_Late
          /\ records[i].Late_Minutes = 0

\* C5: in every record with both Check_In and Check_Out present,
\* Check_In <= Check_Out; every record has Working_Hours >= 0.
C5_CheckInNotAfterCheckOut ==
    rpc = "done" =>
        \A i \in DOMAIN records :
            /\ records[i].Working_Hours >= 0
            /\ (records[i].Check_In # NA /\ records[i].Check_Out # NA) =>
                   Secs(TimeOfText(records[i].Check_In))
                       <= Secs(TimeOfText(records[i].Check_Out))

\* a record with both ends present and hours worked between them
C5_Witness ==
    /\ rpc = "done"
    /\ \E i \in DOMAIN records :
          /\ records[i].Check_In # NA
          /\ records[i].Check_Out # NA
          /\ records[i].Check_In # records[i].Check_Out
          /\ records[i].Working_Hours > 0

\* C6: the record of every punch event carries the directory's name for its
\* id when the id is a directory key and "Unknown_<id>" otherwise; an id
\* missing from the directory is reconciled all the same.
C6_NameFromDirectoryOrPlaceholder ==
    rpc = "done" =>
        \A e \in DOMAIN events :
            LET id == events[e].employee_id
                own == RecordsOf(id, events[e].date)
            IN  /\ own # {}
                /\ \A i \in own :
                      /\ records[i].Employee_Name =
                             IF id \in DOMAIN employees
                             THEN employees[id]
                             ELSE <<"U", "n", "k", "n", "o", "w", "n", "_">> \o id
                      /\ records[i].Check_In = FormatTime(Earliest(TimesOf(id, events[e].date)))
                      /\ records[i].Status \in {"PRESENT", "HALF_DAY"}

\* one event of a listed employee and one of an unlisted employee
C6_Witness ==
    /\ rpc = "done"
    /\ \E e \in DOMAIN events : events[e].employee_id \in DOMAIN employees
    /\ \E e \in DOMAIN events : events[e].employee_id \notin DOMAIN employees
    /\ \E i \in DOMAIN records :
          records[i].Employee_Name = UnknownPrefix \o Id042

----------------------------------------------------------------------------
(* Properties of parse_attendance_file.                                    *)

\* a line of nothing but whitespace
Blank(s) == \A i \in DOMAIN s : s[i] \in Whitespace

\* s without the whitespace around it
Trimmed(s) ==
    IF Blank(s) THEN <<>>
    ELSE LET ink == {i \in DOMAIN s : s[i] \notin Whitespace}
             lo == CHOOSE i \in ink : \A j \in ink : i <= j
             hi == CHOOSE i \in ink : \A j \in ink : j <= i
         IN  SubSeq(s, lo, hi)

\* the tab-separated fields of s: how many, the first and the second
TabsOf(s) == {i \in DOMAIN s : s[i] = TAB}

FieldCount(s) == Cardinality(TabsOf(s)) + 1

FirstTab(s) == CHOOSE i \in TabsOf(s) : \A j \in TabsOf(s) : i <= j

FirstField(s) == SubSeq(s, 1, FirstTab(s) - 1)

SecondField(s) ==
    LET later == {i \in TabsOf(s) : i > FirstTab(s)} \cup {Len(s) + 1}
        stop == CHOOSE i \in later : \A j \in later : i <= j
    IN  SubSeq(s, FirstTab(s) + 1, stop - 1)

OnlyDigits(f) == Len(f) >= 1 /\ {f[i] : i \in DOMAIN f} \subseteq Digits

\* the number a field of one, two or four digits writes
ValueOf(f) ==
    IF Len(f) = 1 THEN DigitVal(f[1])
    ELSE IF Len(f) = 2 THEN 10 * DigitVal(f[1]) + DigitVal(f[2])
    ELSE 1000 * DigitVal(f[1]) + 100 * DigitVal(f[2])
         + 10 * DigitVal(f[3]) + DigitVal(f[4])

\* a way of writing a timestamp: the digits of month, day, hour, minute and
\* second, a space in front of a one-digit day, the whitespace between date
\* and time
StampShapes ==
    [ml : 1..2, lead : 0..1, dl : 1..2, gap : 1..2, hl : 1..2, nl : 1..2, sl : 1..2]

\* YYYY-MM-DD HH:MM:SS, every field at its full width
ExactShape ==
    [ml |-> 2, lead |-> 0, dl |-> 2, gap |-> 1, hl |-> 2, nl |-> 2, sl |-> 2]

\* where the parts of a timestamp of shape sh start
StampLayout(sh) ==
    LET dash2 == 6 + sh.ml
        d0 == dash2 + 1 + sh.lead
        w0 == d0 + sh.dl
        h0 == w0 + sh.gap
        n0 == h0 + sh.hl + 1
        s0 == n0 + sh.nl + 1
    IN  [dash2 |-> dash2, d0 |-> d0, w0 |-> w0, h0 |-> h0, n0 |-> n0, s0 |-> s0,
         len |-> s0 + sh.sl - 1]

\* t is written in shape sh
HasShape(t, sh) ==
    LET at == StampLayout(sh)
        seps == {5, at.dash2} \cup {at.n0 - 1, at.s0 - 1}
        blanks == (at.dash2 + 1)..(at.d0 - 1) \cup at.w0..(at.h0 - 1)
    IN  /\ Len(t) = at.len
        /\ sh.lead = 1 => sh.dl = 1
        /\ t[5] = "-" /\ t[at.dash2] = "-"
        /\ t[at.n0 - 1] = ":" /\ t[at.s0 - 1] = ":"
        /\ \A i \in blanks : t[i] \in Whitespace
        /\ \A i \in (1..Len(t)) \ (seps \cup blanks) : t[i] \in Digits

\* the date and time that t, of shape sh, writes
StampOf(t, sh) ==
    LET at == StampLayout(sh)
    IN  <<<<ValueOf(SubSeq(t, 1, 4)),
            ValueOf(SubSeq(t, 6, at.dash2 - 1)),
            ValueOf(SubSeq(t, at.d0, at.w0 - 1))>>,
          <<ValueOf(SubSeq(t, at.h0, at.n0 - 2)),
            ValueOf(SubSeq(t, at.n0, at.s0 - 2)),
            ValueOf(SubSeq(t, at.s0, at.len))>>>>

\* a date of the calendar and a time of the day
ValidStamp(dt) ==
    /\ dt[1][1] >= 1
    /\ dt[1][2] \in 1..12
    /\ dt[1][3] \in 1..DaysInMonth(dt[1][1], dt[1][2])
    /\ dt[2][1] \in 0..23 /\ dt[2][2] \in 0..59 /\ dt[2][3] \in 0..59

\* the timestamps t writes in one of the shapes
Reads(t, shapes) ==
    {StampOf(t, sh) : sh \in {x \in shapes : HasShape(t, x) /\ ValidStamp(StampOf(t, x))}}

\* the event of a line whose id field is id and whose timestamps are stamps
EventWith(id, stamps) ==
    LET dt == CHOOSE x \in stamps : TRUE
    IN  [employee_id |-> id, date |-> dt[1], time |-> dt[2]]

\* the claim as stated: the fields as they stand in the line, the timestamp
\* in the exact format
KeptAsStated(line) ==
    /\ ~Blank(line)
    /\ FieldCount(line) >= 2
    /\ OnlyDigits(FirstField(line))
    /\ Reads(SecondField(line), {ExactShape}) # {}

EventAsStated(line) ==
    EventWith(FirstField(line), Reads(SecondField(line), {ExactShape}))

\* the claim as amended: the line and its two fields without the whitespace
\* around them, the timestamp in any shape strptime takes
KeptStripped(line) ==
    LET core == Trimmed(line)
    IN  /\ core # <<>>
        /\ FieldCount(core) >= 2
        /\ OnlyDigits(Trimmed(FirstField(core)))
        /\ Reads(Trimmed(SecondField(core)), StampShapes) # {}

EventStripped(line) ==
    LET core == Trimmed(line)
    IN  EventWith(Trimmed(FirstField(core)),
                  Reads(Trimmed(SecondField(core)), StampShapes))

\* C7 (as stated): a line yields an event iff it is non-blank, has at least
\* two tab-separated fields, a first field of digits only and a second field
\* in the exact format YYYY-MM-DD HH:MM:SS; each kept line yields exactly one
\* event and the events are in line order.
C7_KeptIffExactFormat ==
    (ppc = "done" /\ file.readable) =>
        LET kept == {i \in DOMAIN file.lines : KeptAsStated(file.lines[i])}
        IN  /\ Len(parsed) = Cardinality(kept)
            /\ \A i \in kept :
                  parsed[Cardinality({j \in kept : j <= i})]
                      = EventAsStated(file.lines[i])

\* C7 (amended): a line yields an event iff, with the whitespace around the
\* line and around each of its first two tab-separated fields removed, it is
\* non-empty, has at least two fields, a first field of digits only and a
\* second field that strptime takes for %Y-%m-%d %H:%M:%S (month, day, hour,
\* minute and second of one or two digits, whitespace between date and time,
\* a date of the calendar); each kept line yields exactly one event and the
\* events are in line order.
C7_KeptIffStrippedFieldsParse ==
    (ppc = "done" /\ file.readable) =>
        LET kept == {i \in DOMAIN file.lines : KeptStripped(file.lines[i])}
        IN  /\ Len(parsed) = Cardinality(kept)
            /\ \A i \in kept :
                  parsed[Cardinality({j \in kept : j <= i})]
                      = EventStripped(file.lines[i])

\* a malformed line has been passed over and the line after it, with spaces
\* around its fields, has given its event
C7_Witness ==
    /\ ppc = "done"
    /\ file.readable
    /\ file.lines = <<LineD, LinePadded>>
    /\ parsed = <<[employee_id |-> Id007,
                   date |-> <<2024, 1, 10>>, time |-> <<9, 15, 0>>]>>

----------------------------------------------------------------------------
(* Properties of the queries.                                              *)

\* the dashboard the next lookup selects, as a set of none or one
LatestDashboards == {a \in folder : \A b \in folder : b.mtime <= a.mtime}

\* no processed dataset exists: the folder holds no dashboard, or the latest
\* gives no rows
NoDataset ==
    \A a \in LatestDashboards : ~a.sheet.complete \/ a.sheet.rows = <<>>

\* the records the queries are served from
Dataset == load_biometric_data_from_latest_excel(folder).df

Answered(kind) == request.served /\ request.kind = kind

Returned(row) == \E k \in DOMAIN response.items : response.items[k] = row

\* equal as whole strings, letter case apart
CasePairs == {<<"A", "a">>, <<"N", "n">>, <<"X", "x">>}

SameIgnoringCase(a, b) ==
    /\ Len(a) = Len(b)
    /\ \A i \in DOMAIN a :
          a[i] = b[i] \/ <<a[i], b[i]>> \in CasePairs \/ <<b[i], a[i]>> \in CasePairs

\* a YYYY-MM-DD text as a date, and the order of dates
DateOfText(s) ==
    <<ValueOf(SubSeq(s, 1, 4)), ValueOf(SubSeq(s, 6, 7)), ValueOf(SubSeq(s, 9, 10))>>

DateLeq(a, b) ==
    \/ a[1] < b[1]
    \/ a[1] = b[1] /\ a[2] < b[2]
    \/ a[1] = b[1] /\ a[2] = b[2] /\ a[3] <= b[3]

\* C8: a search or employees query issued when no processed dataset exists
\* completes successfully with an empty result and the no-data indication,
\* never with an error, and apart from the answer of a search without match.
C8_NoDatasetAnswersEmptySuccess ==
    ((Answered("search") \/ Answered("employees")) /\ NoDataset) =>
        /\ response.status = 200
        /\ response.error = "none"
        /\ response.items = <<>>
        /\ response.message = "No processed data available"

C10_DateRangeInclusive ==
    (Answered("search") /\ response.status = 200 /\ Dataset # <<>>) =>
        LET from == request.args.from_date
            to == request.args.to_date
            InRange(row) ==
                /\ from # <<>> => DateLeq(DateOfText(from), DateOfText(row.Date))
                /\ to # <<>> => DateLeq(DateOfText(row.Date), DateOfText(to))
        IN  /\ \A i \in DOMAIN Dataset : Returned(Dataset[i]) => InRange(Dataset[i])
            /\ request.args.employee_id = <<>> =>
                  response.items = SelectSeq(Dataset, InRange)

\* a search from 2024-01-10 to 2024-01-10 has returned the record of that day
\* and left out the record of the day before
C10_Witness ==
    /\ Answered("search")
    /\ request.args = [employee_id |-> <<>>,
                       from_date |-> FormatDate(<<2024, 1, 10>>),
                       to_date |-> FormatDate(<<2024, 1, 10>>)]
    /\ Len(Dataset) = 2
    /\ \E i \in DOMAIN Dataset : Dataset[i].Date = FormatDate(<<2024, 1, 9>>)
    /\ Len(response.items) = 1
    /\ response.items[1].Date = FormatDate(<<2024, 1, 10>>)

----------------------------------------------------------------------------
(* Properties of the extractors.                                           *)

\* the (id, name) pairs the scan that has run found, in scan order
Pairings ==
    IF xpc = "primary"
    THEN IF empfile.readable THEN ScanRecords(empfile.data, 0) ELSE <<>>
    ELSE FindAll(TextOf(empfile.data), 1)

PairedIds == {Pairings[i][1] : i \in DOMAIN Pairings}

\* the last pair of the scan whose id is id
LastPairing(id) ==
    CHOOSE i \in DOMAIN Pairings :
        /\ Pairings[i][1] = id
        /\ \A j \in DOMAIN Pairings : Pairings[j][1] = id => j <= i

\* C20: after either scan the directory has exactly the ids the scan paired
\* with a name, one entry each, and maps each id to the name of the last
\* pair of that id in scan order.
C20_LastPairingWins ==
    xpc \in {"primary", "fallback"} =>
        /\ DOMAIN directory = PairedIds
        /\ \A id \in PairedIds : directory[id] = Pairings[LastPairing(id)][2]

\* the primary scan has paired one id with two different names
C20_Witness ==
    /\ xpc = "primary"
    /\ \E i, j \in DOMAIN Pairings :
           /\ i < j
           /\ Pairings[i][1] = Pairings[j][1]
           /\ Pairings[i][2] # Pairings[j][2]

----------------------------------------------------------------------------
(* Properties of process_biometric_data_for_excel_dashboard.               *)

\* the file at the output path of a call: None, or the file as a list of one
OutputFile(c) ==
    IF Exists(disk, calls[c].output_excel_path)
    THEN <<disk[calls[c].output_excel_path]>>
    ELSE None

\* the call holds no directory or no events to report on
LacksInput(c) == calls[c].employees = <<>> \/ calls[c].attendance_records = <<>>

\* C11: a call that has returned with an empty directory (the fallback
\* tried) or an empty event list has returned False; a call is in or past
\* report generation only with both non-empty; and the file at the output
\* path is created or changed only by a step of a call that holds a
\* non-empty directory and a non-empty event list.
C11_EmptyInputAborts ==
    /\ [](\A c \in DOMAIN calls :
            /\ calls[c].pc = "returned" /\ LacksInput(c) => ~calls[c].success
            /\ calls[c].pc \in {"report", "saving", "summary", "raised"}
                   => ~LacksInput(c)
            /\ calls[c].success => ~LacksInput(c))
    /\ [][\A c \in DOMAIN calls :
            OutputFile(c)' # OutputFile(c) => ~LacksInput(c)']_vars

\* a call has returned False for want of a directory, the fallback tried,
\* and the dashboard that was at the output path is still there as it was
C11_Witness ==
    \E c \in DOMAIN calls :
        /\ calls[c].pc = "returned"
        /\ calls[c].employees = <<>>
        /\ ~calls[c].success
        /\ Exists(disk, calls[c].employee_file_path)
        /\ OutputFile(c) = <<OldDashboard>>

\* what the primary scan returns on the employee file of a call
PrimaryResult(c) ==
    parse_binary_employee_file(EmployeeFileAt(disk, calls[c].employee_file_path))

\* C19: the step that runs the fallback extractor is taken only by a call
\* whose primary scan returned an empty directory; and once the scans are
\* over, a call whose primary scan returned a non-empty directory holds
\* exactly that directory, for reconciliation and for the report.
C19_FallbackOnlyAfterEmptyPrimary ==
    /\ [][\A c \in DOMAIN calls :
            calls[c].pc = "fallback" /\ calls'[c].pc # "fallback"
                => PrimaryResult(c) = <<>>]_vars
    /\ [](\A c \in DOMAIN calls :
            calls[c].pc \notin {"scan", "fallback"} /\ PrimaryResult(c) # <<>>
                => calls[c].employees = PrimaryResult(c))

\* a call whose primary scan found employees has reconciled the events
\* against them and is about to write the report
C19_Witness ==
    \E c \in DOMAIN calls :
        /\ calls[c].pc = "report"
        /\ PrimaryResult(c) # <<>>
        /\ calls[c].employees = PrimaryResult(c)
        /\ calls[c].processed_data # <<>>

----------------------------------------------------------------------------
(* Properties of the uploads and of the requests that read the latest      *)
(* dashboard.                                                              *)

\* the request has read its timestamp and has not answered yet
InFlight(u) ==
    uploads[u].pc \in {"save_employee", "save_attendance", "processing", "finally",
                       "remove_employee", "check_attendance", "remove_attendance"}

\* C12: the dashboard a lookup returns is completely written.
C12_LookupReturnsCompleteDashboard ==
    seen # <<>> /\ seen[1] # None => seen[1][1].sheet.complete

\* C13: two upload requests in flight at once have different output paths.
C13_OutputPathsDistinct ==
    \A u, v \in DOMAIN uploads :
        u # v /\ InFlight(u) /\ InFlight(v)
            => OutputPath(uploads[u].timestamp) # OutputPath(uploads[v].timestamp)

\* C14: two upload requests in flight at once have different raw paths, and
\* as long as the pipeline of an upload has a raw file to read, the file at
\* that path holds what this upload has saved there.
C14_RawFilesOwn ==
    \A u \in DOMAIN uploads :
        /\ \A v \in DOMAIN uploads :
               u # v /\ InFlight(u) /\ InFlight(v) =>
                   /\ uploads[u].raw_employee_file_path
                          # uploads[v].raw_employee_file_path
                   /\ uploads[u].raw_attendance_file_path
                          # uploads[v].raw_attendance_file_path
        /\ u \in DOMAIN calls /\ calls[u].pc \in {"scan", "fallback"} =>
               EmployeeFileAt(disk, calls[u].employee_file_path)
                   = [readable |-> TRUE,
                      data |-> uploads[u].form.employee_file[1].content]
        /\ u \in DOMAIN calls /\ calls[u].pc \in {"scan", "fallback", "parse"} =>
               AttendanceFileAt(disk, calls[u].attendance_file_path)
                   = [readable |-> TRUE,
                      lines |-> uploads[u].form.attendance_file[1].content]

\* C15: once an upload that answers 500 has completed, and no other upload
\* has its timestamp, there is no file at its output path.
C15_FailedUploadLeavesNoDashboard ==
    \A u \in DOMAIN uploads :
        /\ uploads[u].pc = "done"
        /\ uploads[u].status = 500
        /\ \A v \in DOMAIN uploads : v # u => uploads[v].timestamp # uploads[u].timestamp
        => ~Exists(disk, OutputPath(uploads[u].timestamp))

\* C16: a lookup returns None iff the folder holds no dashboard, and
\* otherwise a dashboard of the folder that none is newer than; and a lookup
\* made after an upload has completed with 200 returns a dashboard written
\* no earlier than that upload's timestamp.
C16_LookupNeverOlder ==
    [][seen = <<>> /\ seen' # <<>> =>
          /\ seen'[1] = None <=> Dashboards(disk) = {}
          /\ seen'[1] # None =>
                 /\ seen'[1][1] \in Dashboards(disk)
                 /\ \A b \in Dashboards(disk) : b.mtime <= seen'[1][1].mtime
          /\ \A u \in DOMAIN uploads :
                 uploads[u].pc = "done" /\ uploads[u].status = 200 =>
                     /\ seen'[1] # None
                     /\ seen'[1][1].mtime >= uploads[u].timestamp]_vars

----------------------------------------------------------------------------
(* Properties of the summaries.                                            *)

DayRecordsOf(id) == {i \in DOMAIN dataframe : dataframe[i].Employee_ID = id}

present_days(id) ==
    Cardinality({i \in DayRecordsOf(id) : dataframe[i].Status # "ABSENT"})

late_days(id) ==
    Cardinality({i \in DayRecordsOf(id) :
                    dataframe[i].Status # "ABSENT" /\ dataframe[i].Is_Late})

\* the rate of the comparison table, in tenths of a percent
RateOf(id) == employee_stats[1][<<id, NameOf[id]>>].Punctuality_Rate

Distance(a, b) == IF a < b THEN b - a ELSE a - b

\* C17 as stated: for every employee of the records the punctuality rate
\* is exactly (present_days - late_days) / present_days as a percentage,
\* and 0 when present_days is 0, with no error on the way.
C17_PunctualityRateExact ==
    (spc = "compared" /\ dataframe # <<>>) =>
        /\ employee_stats # None
        /\ \A id \in Ids :
              DayRecordsOf(id) # {} =>
                  IF present_days(id) = 0 THEN RateOf(id) = 0
                  ELSE RateOf(id) * present_days(id)
                           = 1000 * (present_days(id) - late_days(id))

\* C17, amended: for every employee of the records the punctuality rate is
\* (present_days - late_days) / present_days as a percentage rounded to
\* one decimal, so within half a tenth of a percent of the quotient, and 0
\* when present_days is 0; the table is computed without an error.
C17_PunctualityRateRounded ==
    (spc = "compared" /\ dataframe # <<>>) =>
        /\ employee_stats # None
        /\ \A id \in Ids :
              DayRecordsOf(id) # {} =>
                  IF present_days(id) = 0 THEN RateOf(id) = 0
                  ELSE 2 * Distance(RateOf(id) * present_days(id),
                                    1000 * (present_days(id) - late_days(id)))
                           <= present_days(id)

\* the table is there for one employee without a present day and one who
\* was late on some of several present days
C17_Witness ==
    /\ spc = "compared"
    /\ employee_stats # None
    /\ \E id \in Ids : DayRecordsOf(id) # {} /\ present_days(id) = 0
    /\ \E id \in Ids : 0 < late_days(id) /\ late_days(id) < present_days(id)

DistinctPairs ==
    {pair \in Ids \X SummaryDates :
        \E i \in DOMAIN dataframe :
            <<dataframe[i].Employee_ID, dataframe[i].Date>> = pair}

AttendedPairs ==
    {pair \in Ids \X SummaryDates :
        \E i \in DOMAIN dataframe :
            /\ <<dataframe[i].Employee_ID, dataframe[i].Date>> = pair
            /\ dataframe[i].Status \in {"PRESENT", "HALF_DAY"}}

----------------------------------------------------------------------------
(* Further properties of process_attendance_data.                          *)

RecordSet == {records[i] : i \in DOMAIN records}

C24_NeverAbsent ==
    rpc = "done" =>
        \A i \in DOMAIN records :
            /\ \E k \in DOMAIN events :
                  /\ events[k].employee_id = records[i].Employee_ID
                  /\ FormatDate(events[k].date) = records[i].Date
            /\ records[i].Check_In # NA
            /\ records[i].Status \in {"PRESENT", "HALF_DAY"}
            /\ records[i].Late_Flag = IF records[i].Is_Late THEN "LATE" ELSE "ON TIME"

\* a lone punch at midnight, the time value nearest to "nothing", has its
\* record, and another record is late
C24_Witness ==
    /\ rpc = "done"
    /\ \E i \in DOMAIN records :
          records[i].Check_In = FormatTime(<<0, 0, 0>>) /\ records[i].Check_Out = NA
    /\ \E i \in DOMAIN records : records[i].Is_Late

----------------------------------------------------------------------------
(* Further properties of the extractors.                                   *)

IsDigitByte(byte) == 48 <= byte /\ byte <= 57

\* the maximal runs of digit bytes of the file, as <<start, end>> with the
\* run at the bytes start + 1 .. end
MaximalDigitRuns ==
    {run \in (0..Len(empfile.data)) \X (0..Len(empfile.data)) :
        /\ run[1] < run[2]
        /\ \A p \in (run[1] + 1)..run[2] : IsDigitByte(empfile.data[p])
        /\ run[1] = 0 \/ ~IsDigitByte(empfile.data[run[1]])
        /\ run[2] = Len(empfile.data) \/ ~IsDigitByte(empfile.data[run[2] + 1])}

\* C22: every ID the primary extractor records is a maximal run of 1 to 3
\* digit bytes of the input, with no digit right before it and none right
\* after it; a longer run of digits contributes no ID.
C22_IdIsMaximalDigitRun ==
    xpc = "primary" =>
        \A id \in DOMAIN directory :
            \E run \in MaximalDigitRuns :
                /\ run[2] - run[1] <= 3
                /\ Decode(empfile.data, run[1], run[2]) = id

\* C23: parse_binary_employee_file returns on every file, and each
\* iteration of its scan loop moves the cursor forward by at least one
\* byte, whether the candidate name is accepted or not and whether an ID
\* is found or not.
C23_ScanTerminates ==
    /\ <>(xpc = "returned")
    /\ [][(xpc = "scan" /\ xpc' = "scan") => cursor' >= cursor + 1]_vars

\* the scan has returned from a file in which it rejected a candidate,
\* accepted a record with its ID, and rejected candidates again
C23_Witness ==
    /\ xpc = "returned"
    /\ empfile.data = MixedData
    /\ directory # <<>>
    /\ cursor > Len(Block(Bob, Id042)) + 2

----------------------------------------------------------------------------
(* Further properties of the summaries.                                    *)

\* the cells of the comparison sheet, its data rows, and the column a
\* header stands in
SheetCells == employee_stats[2]

DataRows == {cell[1] : cell \in DOMAIN SheetCells} \ {3}

ColumnHeaded(header) ==
    {c \in 1..Len(headers) : SheetCells[<<3, c>>] = header}

\* C25: in every data row of the comparison sheet, the column headed
\* Present_Days holds the employee's count of non-ABSENT days, the column
\* headed Late_Count the count of late days, the column headed
\* Punctuality_Rate the punctuality rate; and no cell is written in a
\* column that has no header.
C25_ValuesUnderTheirHeaders ==
    (spc = "compared" /\ employee_stats # None) =>
        /\ \A r \in DataRows :
              LET id == SheetCells[<<r, 1>>]
              IN  /\ \A c \in ColumnHeaded("Present_Days") :
                        SheetCells[<<r, c>>] = present_days(id)
                  /\ \A c \in ColumnHeaded("Late_Count") :
                        SheetCells[<<r, c>>] = late_days(id)
                  /\ \A c \in ColumnHeaded("Punctuality_Rate") :
                        SheetCells[<<r, c>>] = RateOf(id)
        /\ \A cell \in DOMAIN SheetCells : <<3, cell[2]>> \in DOMAIN SheetCells

----------------------------------------------------------------------------
(* Further properties of the uploads.                                      *)

\* C26: at the step with which an upload request completes, whatever its
\* status, no file is left at the raw employee path or at the raw
\* attendance path it saved its files to; and the step with which the
\* validation rejects a request leaves the files of the folder as they are,
\* the request having saved none.
C26_RawFilesGoneAtCompletion ==
    [][\A u \in DOMAIN uploads :
          (uploads[u].pc # "done" /\ uploads'[u].pc = "done") =>
              IF uploads[u].pc = "validate"
              THEN /\ disk' = disk
                   /\ uploads'[u].raw_employee_file_path = None
                   /\ uploads'[u].raw_attendance_file_path = None
              ELSE /\ ~Exists(disk', uploads[u].raw_employee_file_path)
                   /\ ~Exists(disk', uploads[u].raw_attendance_file_path)]_vars

============================================================================
